---- MODULE Spec2Model ----
(***************************************************************************)
(* State-machine model of the Turbo client (pkg/turbo, pkg/signers):       *)
(* the authenticated client's Upload pipeline (sign, then upload), the     *)
(* unauthenticated operations GetBalance, GetUploadCosts and               *)
(* UploadSignedDataItem in their production and test-injection variants,   *)
(* and the signers behind the Signer interface.                            *)
(*                                                                         *)
(* `call` is the activation record of a call: its position (pc), its       *)
(* request, everything it has done to its collaborators (signer calls,     *)
(* stream-factory calls, HTTP requests, callbacks fired, in order) and     *)
(* what it returned.  Spec runs one call at a time; ConcSpec runs Upload   *)
(* from two goroutines on the same client, their records kept in `calls`.  *)
(***************************************************************************)
EXTENDS Integers, Sequences, FiniteSets, TLC

VARIABLES
    impl,      \* which TurboUnauthenticatedClient the client wraps
    signer,    \* the Signer owned by the authenticated client
    call,      \* activation record of the call in progress / last finished
    calls,     \* the activation records of the goroutines calling Upload concurrently
    heap       \* the Config objects a caller of the factory holds, and the clients built from them

vars == <<impl, signer, call, calls, heap>>

----------------------------------------------------------------------------
(* Bounds of the model *)

\* longest input payload (Data or DataReader content), in bytes
MaxDataLen == 1
\* longest byte-count array handed to GetUploadCosts
MaxCosts == 2
\* most invocations of one stream factory, and of one size factory
MaxStreams == 2
\* most Config objects the caller of the factory creates
MaxConfigs == 2
\* most clients built by the factory
MaxClients == 2

----------------------------------------------------------------------------
(* Values *)

Bytes == {1, 2}

RECURSIVE SeqsUpTo(_, _)
SeqsUpTo(S, n) ==
    IF n = 0 THEN {<<>>}
    ELSE LET shorter == SeqsUpTo(S, n - 1)
         IN  shorter \cup {Append(s, x) : s \in {t \in shorter : Len(t) = n - 1}, x \in S}

Payloads == SeqsUpTo(Bytes, MaxDataLen)

\* a Go error value; NoErr is nil
NoErr == [msg |-> "nil"]
NewErr(m) == [msg |-> m]
\* fmt.Errorf("<m>: %w", e)
Wrap(m, e) == [msg |-> m, cause |-> e]

RECURSIVE RootCause(_)
RootCause(e) == IF "cause" \in DOMAIN e THEN RootCause(e.cause) ELSE e

\* errors raised by the collaborators
LibSignErr == NewErr("goar: sign failed")
MockSignErr == NewErr("signing failed")
ReadErr == NewErr("reader: read failed")
FactoryErr == NewErr("stream factory failed")
NetErr == NewErr("transport failed")
BuildErr == NewErr("net/http: cannot build request")
JSONErr == NewErr("json: cannot decode")
CtxErr == NewErr("context canceled")
MarshalErr == NewErr("json: unsupported type")
BodyReadErr == NewErr("unexpected EOF")
WalletErr == NewErr("wallet unavailable")

----------------------------------------------------------------------------
(* pkg/types: events, requests, results *)

Slots == {"OnProgress", "OnSigningStart", "OnSigningSuccess", "OnSigningError",
          "OnError", "OnUploadStart", "OnUploadSuccess", "OnUploadError"}

\* *UploadEvents: nil, or a bag in which each callback slot is set or nil
NilEvents == [nil |-> TRUE]
EventsWith(S) == [nil |-> FALSE, set |-> S]

\* the guard  req.Events != nil && req.Events.<slot> != nil
HasSlot(ev, slot) == ~ev.nil /\ slot \in ev.set

\* what a callback was invoked with
ProgressEvent(step, processed, total) ==
    [name |-> "OnProgress", Step |-> step, ProcessedBytes |-> processed, TotalBytes |-> total]
ErrorEvent(e, step) == [name |-> "OnError", Error |-> e, Step |-> step]
StageError(slot, e) == [name |-> slot, Error |-> e]
StageEvent(slot) == [name |-> slot]
UploadSuccessEvent(result) == [name |-> "OnUploadSuccess", result |-> result]

\* invoke the callback in `slot` when it is set; a nil slot is skipped
Fire(ev, fired, slot, e) == IF HasSlot(ev, slot) THEN Append(fired, e) ELSE fired

\* []byte that may be nil
NilBytes == [nil |-> TRUE]
SomeBytes(b) == [nil |-> FALSE, bytes |-> b]

\* io.Reader that may be nil; reading it to the end may fail
NilReader == [kind |-> "nil"]
FailingReader == [kind |-> "fail"]
ReaderOf(b) == [kind |-> "ok", content |-> b]

Tag(n, v) == [Name |-> n, Value |-> v]

\* []Tag: nil, or a list of tags
NilTags == [nil |-> TRUE]
TagsOf(list) == [nil |-> FALSE, list |-> list]

\* len and range over a slice: a nil slice has no elements
Elements(slice, field) == IF slice.nil THEN <<>> ELSE slice[field]

\* context.Context: nil, or a context the caller can cancel
NilContext == [nil |-> TRUE]
ContextOf(id) == [nil |-> FALSE, id |-> id]

\* *types.UploadRequest
NilRequest == [nil |-> TRUE]
UploadRequest(data, reader, tags, ev, ctx) ==
    [nil |-> FALSE, Data |-> data, DataReader |-> reader, Tags |-> tags,
     Target |-> "target", Anchor |-> "anchor", Events |-> ev, Context |-> ctx]

\* DataItemStreamFactory: nil, a factory that fails, or one that opens a stream
NilFactory == [kind |-> "nil"]
FailingFactory == [kind |-> "err"]
StreamFactory(b) == [kind |-> "ok", content |-> b]

\* DataItemSizeFactory: nil, or a function returning n
NilSize == [nil |-> TRUE]
SizeFactory(n) == [nil |-> FALSE, size |-> n]

\* *types.SignedDataItemUploadRequest
SignedDataItemUploadRequest(factory, size, ev) ==
    [nil |-> FALSE, DataItemStreamFactory |-> factory, DataItemSizeFactory |-> size,
     Events |-> ev]

\* types.Balance, types.UploadCost, types.UploadResult
Balance(winc, credits, currency) == [WinC |-> winc, Credits |-> credits, Currency |-> currency]
UploadCost(winc, n) == [Winc |-> winc, Bytes |-> n]
UploadResult(id, owner) == [ID |-> id, Owner |-> owner]

----------------------------------------------------------------------------
(* HTTP: requests issued, responses received, JSON decoding *)

UploadURL == [svc |-> "upload", path |-> "/v1/tx"]
BalanceURL(token, address) ==
    [svc |-> "payment", path |-> "/v1/account/balance", token |-> token, address |-> address]
PriceURL(n) == [svc |-> "payment", path |-> "/v1/price/bytes", n |-> n]

HTTPRequest(method, url, contentType, body) ==
    [method |-> method, url |-> url, contentType |-> contentType, body |-> body]

\* a response body: text that is not JSON, or a JSON object (a record of its keys)
NotJSON == [valid |-> FALSE]
JSON(obj) == [valid |-> TRUE, obj |-> obj]
EmptyObject == [k \in {} |-> ""]

Response(status, body) == [status |-> status, body |-> body]

\* json decoding into a struct: a key the object lacks leaves the zero value
Field(obj, k, zero) == IF k \in DOMAIN obj THEN obj[k] ELSE zero
DecodeBalance(obj) ==
    Balance(Field(obj, "winc", ""), Field(obj, "credits", ""), Field(obj, "currency", ""))
DecodeUploadCost(obj) == UploadCost(Field(obj, "winc", ""), Field(obj, "bytes", 0))
DecodeUploadResult(obj) == UploadResult(Field(obj, "id", ""), Field(obj, "owner", ""))

HTTPStatusErr(resp) == [msg |-> "HTTP", status |-> resp.status, body |-> resp.body]

\* ParseJSON: a status outside 2xx is an error carrying status and body; a body
\* that does not decode is a decode error; otherwise the decoded object
ParseJSON(resp) ==
    IF resp.status < 200 \/ resp.status >= 300
    THEN [err |-> HTTPStatusErr(resp)]
    ELSE IF ~resp.body.valid
    THEN [err |-> Wrap("failed to decode JSON response", JSONErr)]
    ELSE [err |-> NoErr, obj |-> resp.body.obj]

----------------------------------------------------------------------------
(* pkg/signers *)

\* serialized, signed data item produced by the item signer: never the raw data
SignedBinary(dataItem) == <<0>> \o Elements(dataItem.Data, "bytes")
MockBinary == <<0, 0, 0>>

CreateDataItem(data, tags, target, anchor) ==
    [Data |-> data, Tags |-> tags, Target |-> target, Anchor |-> anchor]

\* goar's types.Tag
GoarTag(n, v) == [Name |-> n, Value |-> v, pkg |-> "goar"]

\* Faulty variant of GoarTags: a tag whose name was already seen is dropped
GoarTags_Deduplicated(tags) ==
    LET list == Elements(tags, "list")
        keep == SelectSeq([i \in 1..Len(list) |-> [i |-> i, tag |-> list[i]]],
                          LAMBDA x : \A j \in 1..(x.i - 1) : list[j].Name # x.tag.Name)
    IN  TagsOf([i \in 1..Len(keep) |-> GoarTag(keep[i].tag.Name, keep[i].tag.Value)])

\* the conversion loop of SignDataItem: goarTags[i] from dataItem.Tags[i]
GoarTags(tags) ==
    LET list == Elements(tags, "list")
    IN  TagsOf([i \in 1..Len(list) |-> GoarTag(list[i].Name, list[i].Value)])

\* the arguments a wallet adapter passes to ItemSigner.CreateAndSignItem
ItemSignerArgs(dataItem) ==
    [data |-> dataItem.Data, target |-> dataItem.Target, anchor |-> dataItem.Anchor,
     tags |-> GoarTags(dataItem.Tags)]

\* what goar's ItemSigner.CreateAndSignItem can answer
LibOutcomes == {"ok", "empty", "err"}

BundleItem(bin) == [ItemBinary |-> bin]

\* ArweaveSigner.SignDataItem / EthereumSigner.SignDataItem
WalletSignDataItem(lib, dataItem) ==
    IF lib = "err"
    THEN [err |-> Wrap("failed to create and sign data item", LibSignErr)]
    ELSE LET bundleItem == BundleItem(IF lib = "empty" THEN <<>> ELSE SignedBinary(dataItem))
         IN  IF Len(bundleItem.ItemBinary) = 0
             THEN [err |-> NewErr("failed to generate signed data item binary")]
             ELSE [err |-> NoErr, bundleItem |-> bundleItem]

\* MockSigner.SignDataItem
MockSignDataItem(m, dataItem) ==
    IF m.SignDataItemError # NoErr
    THEN [err |-> m.SignDataItemError]
    ELSE [err |-> NoErr, bundleItem |-> m.SignDataItemResult]

\* types.TokenType
TokenTypeArweave == "arweave"
TokenTypeEthereum == "ethereum"

\* A signer is held by pointer: `ref` is the identity of the instance, the other
\* fields are the object behind it.
\* &ArweaveSigner{...} of a wallet whose address is `address`
ArweaveSigner(ref, address) == [kind |-> "arweave", ref |-> ref, Address |-> address]
\* &EthereumSigner{...}
EthereumSigner(ref, address) == [kind |-> "ethereum", ref |-> ref, Address |-> address]

\* NewMockSigner(address, tokenType)
NewMockSigner(ref, address, tokenType) ==
    [kind |-> "mock", ref |-> ref, Address |-> address, TokenType |-> tokenType,
     SignDataItemError |-> NoErr, SignDataItemResult |-> BundleItem(MockBinary)]

\* a Signer of the caller's own whose wallet cannot be reached: every method
\* that can return an error returns one
UnavailableSigner(ref, tokenType) == [kind |-> "unavailable", ref |-> ref, TokenType |-> tokenType]

\* the adapters of this package that sign with goar's item signer
IsWallet(s) == s.kind \in {"arweave", "ethereum"}

\* Signer.GetNativeAddress, dispatched on the concrete signer
GetNativeAddress(s) ==
    IF s.kind = "unavailable" THEN [err |-> WalletErr]
    ELSE [err |-> NoErr, address |-> s.Address]

\* Signer.GetTokenType
GetTokenType(s) ==
    IF s.kind = "arweave" THEN TokenTypeArweave
    ELSE IF s.kind = "ethereum" THEN TokenTypeEthereum
    ELSE s.TokenType

\* Signer.SignDataItem, dispatched on the concrete signer
SignDataItem(s, lib, dataItem) ==
    IF s.kind = "mock" THEN MockSignDataItem(s, dataItem)
    ELSE IF s.kind = "unavailable" THEN [err |-> WalletErr]
    ELSE WalletSignDataItem(lib, dataItem)

\* what the item signer of signer `s` can answer; only the wallet adapters
\* have one
ItemSignerOutcomes(s) == IF IsWallet(s) THEN LibOutcomes ELSE {"ok"}

Signers ==
    {ArweaveSigner("signer", "ar-address"), EthereumSigner("signer", "0xeth-address"),
     NewMockSigner("signer", "test-address", TokenTypeArweave),
     UnavailableSigner("signer", TokenTypeEthereum)}

----------------------------------------------------------------------------
(* The activation record of a call *)

NoReturn == [kind |-> "none"]
ReturnErr(e) == [kind |-> "err", err |-> e]
ReturnOk(v) == [kind |-> "ok", val |-> v]
\* a nil function value was called: the goroutine panics, nothing is returned
Panic == [kind |-> "panic"]

NoResponse == [kind |-> "none"]
Received(resp) == [kind |-> "response", resp |-> resp]

IdleCall ==
    [op |-> "none",            \* the exported method that was called
     pc |-> "idle",            \* position inside it
     req |-> NilRequest,       \* Upload's request
     sreq |-> NilRequest,      \* UploadSignedDataItem's request
     data |-> <<>>,            \* Upload: the resolved input bytes
     args |-> NilRequest,      \* SignDataItem: the arguments of CreateDataItem
     readerReads |-> 0,        \* Upload: times DataReader was drained
     dataItems |-> <<>>,       \* data items handed to Signer.SignDataItem, in order
     libCalls |-> <<>>,        \* arguments handed to ItemSigner.CreateAndSignItem, in order
     signed |-> NoReturn,      \* what SignDataItem answered
     factoryCalls |-> 0,       \* invocations of DataItemStreamFactory
     stream |-> "none",        \* the stream obtained from the factory: none, open, closed
     ctx |-> ContextOf("ctx"), \* the ctx argument of the call
     uploadCtx |-> ContextOf("ctx"),  \* the context the network calls run under
     signCtx |-> <<>>,         \* the contexts SignDataItem was called with, in order
     postCtx |-> <<>>,         \* the contexts the POST requests were built with, in order
     cancelled |-> {},         \* contexts the caller has cancelled, and at which position
     wire |-> "none",          \* the POST at the transport: none, sent, answered, failed, aborted
     streams |-> <<>>,         \* streams the holder of the upload request took from its factory
     sizes |-> <<>>,           \* what its size factory answered, call by call
     requests |-> <<>>,        \* HTTP requests handed to the transport, in order
     got |-> NoResponse,       \* the HTTP response being handled
     bodies |-> <<>>,          \* the body of each response obtained, in order: open or closed
     fired |-> <<>>,           \* callbacks invoked, in order, with their arguments
     bytes |-> <<>>,           \* GetUploadCosts: the byte counts asked for
     costs |-> <<>>,           \* GetUploadCosts: the result array being filled
     answers |-> <<>>,         \* GetUploadCosts: the responses received, in order
     address |-> "",           \* GetBalance: the address asked for
     addressCalls |-> 0,       \* GetBalanceForSigner: calls of Signer.GetNativeAddress
     env |-> [lib |-> "none", built |-> NoReturn, answer |-> NoReturn],
                               \* what the collaborators did: the item signer, the
                               \* request construction, the transport
     ret |-> NoReturn]         \* what the call returned

\* the transport hands over a response: its body is open until it is closed
ResponseArrives(c, outcome) == [c EXCEPT !.got = outcome, !.bodies = Append(@, "open")]

\* defer resp.Body.Close() of the function that handles the response last
\* obtained
BodyClosed(c) == [c EXCEPT !.bodies[Len(c.bodies)] = "closed"]

\* Faulty variant of Return: the stream is not closed on the way out
Return_NoClose(c, r) == [c EXCEPT !.pc = "done", !.ret = r]

\* return from the call; deferred dataStream.Close() runs on the way out
Return(c, r) ==
    [c EXCEPT !.pc = "done", !.ret = r,
              !.stream = IF c.stream = "open" THEN "closed" ELSE c.stream]

----------------------------------------------------------------------------
(* authenticatedClient.Upload: input resolution and signing *)

\* Faulty variant of UploadResolve: the signing-start progress event is emitted
\* before the data source is checked
UploadResolve_NotifyFirst(c, req) ==
    LET c0 == [c EXCEPT !.op = "Upload", !.req = req]
        bytes == IF ~req.Data.nil THEN req.Data.bytes
                 ELSE IF req.DataReader.kind = "ok" THEN req.DataReader.content
                 ELSE <<>>
        c1 == IF req.nil THEN c0
              ELSE [c0 EXCEPT !.fired = Fire(req.Events, c0.fired, "OnProgress",
                                             ProgressEvent("signing", 0, Len(bytes)))]
    IN  IF req.nil
        THEN [c1 EXCEPT !.pc = "done", !.ret = ReturnErr(NewErr("upload request is required"))]
        ELSE IF ~req.Data.nil
        THEN [c1 EXCEPT !.pc = "sign", !.data = bytes,
                        !.uploadCtx = IF req.Context.nil THEN c1.ctx ELSE req.Context]
        ELSE IF req.DataReader.kind = "ok"
        THEN [c1 EXCEPT !.pc = "sign", !.data = bytes, !.readerReads = 1,
                        !.uploadCtx = IF req.Context.nil THEN c1.ctx ELSE req.Context]
        ELSE IF req.DataReader.kind = "fail"
        THEN [c1 EXCEPT !.pc = "done", !.readerReads = 1,
                        !.ret = ReturnErr(Wrap("failed to read data", ReadErr))]
        ELSE [c1 EXCEPT !.pc = "done",
                        !.ret = ReturnErr(NewErr("either Data or DataReader must be provided"))]

\* Faulty variant of UploadResolve: DataReader is looked at first, and drained
\* even when Data is set
UploadResolve_ReaderFirst(c, req) ==
    LET c0 == [c EXCEPT !.op = "Upload", !.req = req]
        start(data, reads) ==
            [c0 EXCEPT !.pc = "sign", !.data = data, !.readerReads = reads,
                       !.uploadCtx = IF req.Context.nil THEN c0.ctx ELSE req.Context,
                       !.fired = Fire(req.Events, c0.fired, "OnProgress",
                                      ProgressEvent("signing", 0, Len(data)))]
    IN  IF req.nil
        THEN Return(c0, ReturnErr(NewErr("upload request is required")))
        ELSE IF req.DataReader.kind = "ok"
        THEN start(req.DataReader.content, 1)
        ELSE IF req.DataReader.kind = "fail"
        THEN Return([c0 EXCEPT !.readerReads = 1],
                    ReturnErr(Wrap("failed to read data", ReadErr)))
        ELSE IF ~req.Data.nil
        THEN start(req.Data.bytes, 0)
        ELSE Return(c0, ReturnErr(NewErr("either Data or DataReader must be provided")))

\* Upload, from entry to the signing-start progress event
UploadResolve(c, req) ==
    LET c0 == [c EXCEPT !.op = "Upload", !.req = req]
        start(data, reads) ==
            [c0 EXCEPT !.pc = "sign", !.data = data, !.readerReads = reads,
                       !.uploadCtx = IF req.Context.nil THEN c0.ctx ELSE req.Context,
                       !.fired = Fire(req.Events, c0.fired, "OnProgress",
                                      ProgressEvent("signing", 0, Len(data)))]
    IN  IF req.nil
        THEN Return(c0, ReturnErr(NewErr("upload request is required")))
        ELSE IF ~req.Data.nil
        THEN start(req.Data.bytes, 0)
        ELSE IF req.DataReader.kind = "ok"
        THEN start(req.DataReader.content, 1)
        ELSE IF req.DataReader.kind = "fail"
        THEN Return([c0 EXCEPT !.readerReads = 1],
                    ReturnErr(Wrap("failed to read data", ReadErr)))
        ELSE Return(c0, ReturnErr(NewErr("either Data or DataReader must be provided")))

\* Faulty variant of SignedRequestOf: the size factory reports the length of the
\* input instead of the length of the signed item
SignedRequestOf_SizeOfInput(req, bundleItem) ==
    SignedDataItemUploadRequest(StreamFactory(bundleItem.ItemBinary),
                                SizeFactory(IF ~req.Data.nil THEN Len(req.Data.bytes)
                                            ELSE Len(req.DataReader.content)),
                                req.Events)

\* the request Upload builds for the signed item
SignedRequestOf(req, bundleItem) ==
    SignedDataItemUploadRequest(StreamFactory(bundleItem.ItemBinary),
                                SizeFactory(Len(bundleItem.ItemBinary)),
                                req.Events)

\* io.NopCloser(bytes.NewReader(bin)): a reader of its own over bin, at the start
NewReader(bin) == [content |-> bin, pos |-> 0, read |-> <<>>, closed |-> FALSE]

\* Faulty variant of InvokeStreamFactory: one reader, made once, is handed out
\* again, and a later stream goes on where the earlier one stopped
InvokeStreamFactory_SharedReader(factory, streams) ==
    IF streams = <<>> THEN NewReader(factory.content)
    ELSE [NewReader(factory.content) EXCEPT !.pos = streams[Len(streams)].pos]

\* the stream factory Upload builds, invoked by the holder of the request
\* that has already taken `streams` from it
InvokeStreamFactory(factory, streams) == NewReader(factory.content)

\* the size factory Upload builds
InvokeSizeFactory(size) == size.size

\* Read of one byte from a stream; at the end of the content nothing is delivered
ReadStream(st) ==
    IF st.pos < Len(st.content)
    THEN [st EXCEPT !.pos = @ + 1, !.read = Append(@, st.content[st.pos + 1])]
    ELSE st

\* what Upload does once the signer has answered without an error
AfterSigning(c1, bundleItem) ==
    LET req == c1.req
        f1 == Fire(req.Events, c1.fired, "OnSigningSuccess", StageEvent("OnSigningSuccess"))
        f2 == Fire(req.Events, f1, "OnProgress",
                   ProgressEvent("signing", Len(c1.data), Len(c1.data)))
    IN  [c1 EXCEPT !.signed = ReturnOk(bundleItem), !.fired = f2,
                   !.sreq = SignedRequestOf(req, bundleItem),
                   !.pc = "stream"]

\* Faulty variant of Signing: the signer is handed the ctx argument of the
\* call instead of the upload context
Signing_UnderCtxArgument(c, s, dataItem) ==
    [c EXCEPT !.dataItems = Append(c.dataItems, dataItem),
              !.signCtx = Append(@, c.ctx),
              !.libCalls = IF IsWallet(s) THEN Append(@, ItemSignerArgs(dataItem)) ELSE @]

\* the call of Signer.SignDataItem, under the upload context: a wallet
\* adapter calls the item signer
Signing(c, s, dataItem) ==
    [c EXCEPT !.dataItems = Append(c.dataItems, dataItem),
              !.signCtx = Append(@, c.uploadCtx),
              !.libCalls = IF IsWallet(s) THEN Append(@, ItemSignerArgs(dataItem)) ELSE @]

\* Faulty variant of UploadSign: the error branch fires its events but does
\* not return, and the upload goes on with the zero bundle item
UploadSign_NoReturnOnError(c, s, lib) ==
    LET req == c.req
        dataItem == CreateDataItem(SomeBytes(c.data), req.Tags, req.Target, req.Anchor)
        res == SignDataItem(s, lib, dataItem)
        c1 == Signing(c, s, dataItem)
    IN  IF res.err # NoErr
        THEN LET f1 == Fire(req.Events, c1.fired, "OnSigningError",
                            StageError("OnSigningError", res.err))
                 f2 == Fire(req.Events, f1, "OnError", ErrorEvent(res.err, "signing"))
             IN  [c1 EXCEPT !.signed = ReturnErr(res.err), !.fired = f2,
                            !.sreq = SignedRequestOf(req, BundleItem(<<>>)),
                            !.pc = "stream"]
        ELSE AfterSigning(c1, res.bundleItem)

\* Faulty variant of UploadSign: a failed signing is tried once more
UploadSign_Retry(c, s, lib) ==
    LET req == c.req
        dataItem == CreateDataItem(SomeBytes(c.data), req.Tags, req.Target, req.Anchor)
        res == SignDataItem(s, lib, dataItem)
        c1 == Signing(c, s, dataItem)
        c2 == Signing(c1, s, dataItem)
    IN  IF res.err # NoErr
        THEN LET f1 == Fire(req.Events, c2.fired, "OnSigningError",
                            StageError("OnSigningError", res.err))
                 f2 == Fire(req.Events, f1, "OnError", ErrorEvent(res.err, "signing"))
             IN  Return([c2 EXCEPT !.signed = ReturnErr(res.err), !.fired = f2],
                        ReturnErr(Wrap("failed to sign data item", res.err)))
        ELSE AfterSigning(c1, res.bundleItem)

\* Upload, from CreateDataItem to the call of UploadSignedDataItem;
\* `lib` is what the wallet's item signer answers
UploadSign(c, s, lib) ==
    LET req == c.req
        dataItem == CreateDataItem(SomeBytes(c.data), req.Tags, req.Target, req.Anchor)
        res == SignDataItem(s, lib, dataItem)
        c1 == Signing(c, s, dataItem)
    IN  IF res.err # NoErr
        THEN LET f1 == Fire(req.Events, c1.fired, "OnSigningError",
                            StageError("OnSigningError", res.err))
                 f2 == Fire(req.Events, f1, "OnError", ErrorEvent(res.err, "signing"))
             IN  Return([c1 EXCEPT !.signed = ReturnErr(res.err), !.fired = f2],
                        ReturnErr(Wrap("failed to sign data item", res.err)))
        ELSE AfterSigning(c1, res.bundleItem)

\* CreateDataItem followed by SignDataItem of the client's signer, called by
\* the holder of the signer
CreateAndSign(c, s, lib, data, tags, target, anchor) ==
    LET dataItem == CreateDataItem(data, tags, target, anchor)
        res == SignDataItem(s, lib, dataItem)
        c1 == Signing([c EXCEPT !.op = "SignDataItem",
                                !.args = [data |-> data, tags |-> tags,
                                          target |-> target, anchor |-> anchor]],
                      s, dataItem)
    IN  IF res.err # NoErr
        THEN Return([c1 EXCEPT !.signed = ReturnErr(res.err)], ReturnErr(res.err))
        ELSE Return([c1 EXCEPT !.signed = ReturnOk(res.bundleItem)], ReturnOk(res.bundleItem))

----------------------------------------------------------------------------
(* UploadSignedDataItem: unauthenticatedClient and testableUnauthenticatedClient *)

Impls == {"prod", "testable"}

\* a direct call of UploadSignedDataItem
UploadSignedEnter(c, sreq) == [c EXCEPT !.op = "UploadSignedDataItem", !.sreq = sreq, !.pc = "stream"]

\* from entry to the upload-start events: nil check, stream factory, defer Close,
\* OnUploadStart, progress(uploading, 0)
OpenStream(c) ==
    LET sreq == c.sreq
    IN  IF sreq.nil
        THEN Return(c, ReturnErr(NewErr("upload request is required")))
        ELSE IF sreq.DataItemStreamFactory.kind = "nil"
        THEN Return(c, Panic)
        ELSE IF sreq.DataItemStreamFactory.kind = "err"
        THEN Return([c EXCEPT !.factoryCalls = c.factoryCalls + 1],
                    ReturnErr(Wrap("failed to create data stream", FactoryErr)))
        ELSE LET c1 == [c EXCEPT !.factoryCalls = c.factoryCalls + 1, !.stream = "open"]
                 f1 == Fire(sreq.Events, c1.fired, "OnUploadStart", StageEvent("OnUploadStart"))
             IN  IF HasSlot(sreq.Events, "OnProgress") /\ sreq.DataItemSizeFactory.nil
                 THEN Return([c1 EXCEPT !.fired = f1], Panic)
                 ELSE [c1 EXCEPT !.pc = "post",
                           !.fired = Fire(sreq.Events, f1, "OnProgress",
                                          ProgressEvent("uploading", 0,
                                                        sreq.DataItemSizeFactory.size))]

\* OnUploadError, then OnError with stage "uploading"
FireUploadError(ev, fired, e) ==
    Fire(ev, Fire(ev, fired, "OnUploadError", StageError("OnUploadError", e)),
         "OnError", ErrorEvent(e, "uploading"))

\* Faulty variant of PostRequest: Upload posts the input bytes it resolved, not
\* the signed item
PostRequest_RawInput(c) ==
    HTTPRequest("POST", UploadURL, "application/octet-stream",
                IF c.op = "Upload" THEN c.data ELSE c.sreq.DataItemStreamFactory.content)

\* the request of the upload: POST {uploadURL}/v1/tx with the stream as its body
PostRequest(c) ==
    HTTPRequest("POST", UploadURL, "application/octet-stream",
                c.sreq.DataItemStreamFactory.content)

\* what can happen to a request: it cannot be built, the transport fails, or a
\* response arrives
BuildFails == [kind |-> "build_fail"]
Built == [kind |-> "built"]
TransportFails == [kind |-> "net_fail"]
Aborted == [kind |-> "aborted"]

\* the context the request in flight was built with is cancelled
Cancelled(c) ==
    /\ c.postCtx # <<>>
    /\ \E x \in c.cancelled : x.id = c.postCtx[Len(c.postCtx)].id

\* Faulty variant of Post: a request that cannot be built is reported to the
\* caller only, without the error events
Post_SilentBuildFailure(c, im, outcome) ==
    IF outcome.kind = "build_fail"
    THEN Return(c, ReturnErr(Wrap(IF im = "prod" THEN "failed to create upload request"
                                  ELSE "failed to upload data item", BuildErr)))
    ELSE [c EXCEPT !.requests = Append(c.requests, PostRequest(c)),
                   !.postCtx = Append(@, c.uploadCtx),
                   !.wire = "sent", !.pc = "inflight"]

\* the POST: build the request with the call's context and hand it to the
\* transport
Post(c, im, outcome) ==
    LET ev == c.sreq.Events
    IN  IF outcome.kind = "build_fail"
        THEN Return([c EXCEPT !.fired = FireUploadError(ev, c.fired, BuildErr)],
                    ReturnErr(Wrap(IF im = "prod" THEN "failed to create upload request"
                                   ELSE "failed to upload data item", BuildErr)))
        ELSE [c EXCEPT !.requests = Append(c.requests, PostRequest(c)),
                       !.postCtx = Append(@, c.uploadCtx),
                       !.wire = "sent", !.pc = "inflight"]

\* Faulty variant of ClientDo: the request does not carry the call's context
\* and runs to its end after a cancellation
ClientDo_IgnoresContext(c, outcome) ==
    LET ev == c.sreq.Events
    IN  IF outcome.kind = "net_fail"
        THEN Return([c EXCEPT !.wire = "failed",
                              !.fired = FireUploadError(ev, c.fired, NetErr)],
                    ReturnErr(Wrap("failed to upload data item", NetErr)))
        ELSE [ResponseArrives(c, IF outcome.kind = "aborted"
                                    THEN Received(Response(200, JSON(EmptyObject)))
                                    ELSE outcome)
                 EXCEPT !.wire = "answered", !.pc = "parse"]

\* client.Do returns: the request was aborted because its context is
\* cancelled, the transport failed, or the response arrived
ClientDo(c, outcome) ==
    LET ev == c.sreq.Events
    IN  IF Cancelled(c)
        THEN Return([c EXCEPT !.wire = "aborted",
                              !.fired = FireUploadError(ev, c.fired, CtxErr)],
                    ReturnErr(Wrap("failed to upload data item", CtxErr)))
        ELSE IF outcome.kind = "net_fail"
        THEN Return([c EXCEPT !.wire = "failed",
                              !.fired = FireUploadError(ev, c.fired, NetErr)],
                    ReturnErr(Wrap("failed to upload data item", NetErr)))
        ELSE [ResponseArrives(c, outcome) EXCEPT !.wire = "answered", !.pc = "parse"]

\* Faulty variant of HandleUploadResponse: on success the final progress event
\* is emitted before OnUploadSuccess
HandleUploadResponse_ProgressFirst(c) ==
    LET ev == c.sreq.Events
        d == BodyClosed(c)
        parsed == ParseJSON(c.got.resp)
    IN  IF parsed.err # NoErr
        THEN Return([d EXCEPT !.fired = FireUploadError(ev, c.fired, parsed.err)],
                    ReturnErr(parsed.err))
        ELSE LET result == DecodeUploadResult(parsed.obj)
             IN  IF HasSlot(ev, "OnProgress") /\ c.sreq.DataItemSizeFactory.nil
                 THEN Return(d, Panic)
                 ELSE LET f1 == Fire(ev, c.fired, "OnProgress",
                                     ProgressEvent("uploading",
                                                   c.sreq.DataItemSizeFactory.size,
                                                   c.sreq.DataItemSizeFactory.size))
                      IN  Return([d EXCEPT !.fired =
                                      Fire(ev, f1, "OnUploadSuccess",
                                           UploadSuccessEvent(result))],
                                 ReturnOk(result))

\* from ParseJSON to the return: the error events, or OnUploadSuccess and
\* progress(uploading, size of size)
HandleUploadResponse(c) ==
    LET ev == c.sreq.Events
        d == BodyClosed(c)
        parsed == ParseJSON(c.got.resp)
    IN  IF parsed.err # NoErr
        THEN Return([d EXCEPT !.fired = FireUploadError(ev, c.fired, parsed.err)],
                    ReturnErr(parsed.err))
        ELSE LET result == DecodeUploadResult(parsed.obj)
                 f1 == Fire(ev, c.fired, "OnUploadSuccess", UploadSuccessEvent(result))
             IN  IF HasSlot(ev, "OnProgress") /\ c.sreq.DataItemSizeFactory.nil
                 THEN Return([d EXCEPT !.fired = f1], Panic)
                 ELSE Return([d EXCEPT !.fired =
                                  Fire(ev, f1, "OnProgress",
                                       ProgressEvent("uploading",
                                                     c.sreq.DataItemSizeFactory.size,
                                                     c.sreq.DataItemSizeFactory.size))],
                             ReturnOk(result))

----------------------------------------------------------------------------
(* HTTPClient.Do: the request helper that returns the response read into memory *)

\* Request.Body: nil, a value json.Marshal encodes, or one it rejects
NilBody == [kind |-> "nil"]
JSONBody == [kind |-> "json"]
UnsupportedBody == [kind |-> "unsupported"]

Request(method, url, body, bodyReader, contentType) ==
    [Method |-> method, URL |-> url, Body |-> body, BodyReader |-> bodyReader,
     ContentType |-> contentType]

\* json.Marshal of a JSONBody
Marshalled == <<123, 125>>

\* the response body could not be read to its end
ReadFails == [kind |-> "read_fail"]

\* return response, err: both values are handed to the caller
ReturnBoth(v, e) == [kind |-> "err", err |-> e, val |-> v]

\* the status check of Do
IsHTTPError(status) == status >= 400

HTTPClientDo(c, req, outcome) ==
    LET c0 == [c EXCEPT !.op = "Do"]
        marshal == req.BodyReader.kind = "nil" /\ req.Body.kind # "nil"
        body == IF req.BodyReader.kind # "nil" THEN req.BodyReader.content
                ELSE IF req.Body.kind = "json" THEN Marshalled
                ELSE <<>>
        contentType == IF marshal /\ req.ContentType = "" THEN "application/json"
                       ELSE req.ContentType
        c1 == [c0 EXCEPT !.requests =
                   Append(c0.requests, HTTPRequest(req.Method, req.URL, contentType, body))]
    IN  IF marshal /\ req.Body.kind = "unsupported"
        THEN Return(c0, ReturnErr(Wrap("failed to marshal request body", MarshalErr)))
        ELSE IF outcome.kind = "build_fail"
        THEN Return(c0, ReturnErr(Wrap("failed to create HTTP request", BuildErr)))
        ELSE IF outcome.kind = "net_fail"
        THEN Return(c1, ReturnErr(Wrap("HTTP request failed", NetErr)))
        ELSE IF outcome.kind = "read_fail"
        THEN Return([c1 EXCEPT !.bodies = Append(@, "closed")],
                    ReturnErr(Wrap("failed to read response body", BodyReadErr)))
        ELSE LET c2 == BodyClosed(ResponseArrives(c1, outcome))
             IN  IF IsHTTPError(outcome.resp.status)
                 THEN Return(c2, ReturnBoth(outcome.resp, HTTPStatusErr(outcome.resp)))
                 ELSE Return(c2, ReturnOk(outcome.resp))

----------------------------------------------------------------------------
(* GetBalance *)

\* NewUnauthenticatedClient fixes the token of the production client;
\* the test-injection client writes it into the URL
ClientToken(im) == "arweave"

\* Faulty variant of NotFoundBalance: the zero value of the struct
NotFoundBalance_ZeroValue == Balance("", "", "")

\* the balance returned on a 404
NotFoundBalance == Balance("0", "0", "USD")
\* the balance returned when the decoded credit field is empty
EmptyBalance == Balance("0", "0", "USD")

BalanceRequest(im, address) == HTTPRequest("GET", BalanceURL(ClientToken(im), address), "", <<>>)

\* unauthenticatedClient.GetBalance
ProdGetBalance(c, address, outcome) ==
    LET c0 == [c EXCEPT !.op = "GetBalance", !.address = address]
        c1 == [c0 EXCEPT !.requests = Append(c0.requests, BalanceRequest("prod", address))]
    IN  IF outcome.kind = "build_fail"
        THEN Return(c0, ReturnErr(Wrap("failed to create request", BuildErr)))
        ELSE IF outcome.kind = "net_fail"
        THEN Return(c1, ReturnErr(Wrap("failed to get balance", NetErr)))
        ELSE LET c2 == ResponseArrives(c1, outcome)
                 parsed == ParseJSON(outcome.resp)
                 c3 == BodyClosed(c2)
             IN  IF outcome.resp.status = 404
                 THEN Return(c2, ReturnOk(NotFoundBalance))
                 ELSE IF parsed.err # NoErr
                 THEN Return(c3, ReturnErr(parsed.err))
                 ELSE IF DecodeBalance(parsed.obj).WinC = ""
                 THEN Return(c3, ReturnOk(EmptyBalance))
                 ELSE Return(c3, ReturnOk(DecodeBalance(parsed.obj)))

\* testableUnauthenticatedClient.GetBalance
TestableGetBalance(c, address, outcome) ==
    LET c0 == [c EXCEPT !.op = "GetBalance", !.address = address]
        c1 == [c0 EXCEPT !.requests = Append(c0.requests, BalanceRequest("testable", address))]
    IN  IF outcome.kind = "build_fail"
        THEN Return(c0, ReturnErr(Wrap("failed to get balance", BuildErr)))
        ELSE IF outcome.kind = "net_fail"
        THEN Return(c1, ReturnErr(Wrap("failed to get balance", NetErr)))
        ELSE LET c2 == BodyClosed(ResponseArrives(c1, outcome))
                 parsed == ParseJSON(outcome.resp)
             IN  IF parsed.err # NoErr
                 THEN Return(c2, ReturnErr(parsed.err))
                 ELSE Return(c2, ReturnOk(DecodeBalance(parsed.obj)))

\* a.TurboUnauthenticatedClient.GetBalance: the method of the wrapped client
WrappedGetBalance(im, c, address, outcome) ==
    IF im = "prod" THEN ProdGetBalance(c, address, outcome)
    ELSE TestableGetBalance(c, address, outcome)

\* Faulty variant of BalanceForSigner: the error of GetNativeAddress is dropped
\* and the balance of the empty address is asked for
BalanceForSigner_IgnoresAddressError(c, s, im, outcome) ==
    LET res == GetNativeAddress(s)
        c0 == [c EXCEPT !.addressCalls = @ + 1]
    IN  [WrappedGetBalance(im, c0, IF res.err # NoErr THEN "" ELSE res.address, outcome)
            EXCEPT !.op = "GetBalanceForSigner"]

\* authenticatedClient.GetBalanceForSigner
BalanceForSigner(c, s, im, outcome) ==
    LET res == GetNativeAddress(s)
        c0 == [c EXCEPT !.addressCalls = @ + 1]
    IN  IF res.err # NoErr
        THEN Return([c0 EXCEPT !.op = "GetBalanceForSigner"],
                    ReturnErr(Wrap("failed to get wallet address", res.err)))
        ELSE [WrappedGetBalance(im, c0, res.address, outcome)
                 EXCEPT !.op = "GetBalanceForSigner"]

----------------------------------------------------------------------------
(* GetSigner *)

\* Faulty variant of ClientGetSigner: a copy of the signer is handed out
ClientGetSigner_Copy(c, s) ==
    Return([c EXCEPT !.op = "GetSigner"], ReturnOk([s EXCEPT !.ref = "copy"]))

\* authenticatedClient.GetSigner: the pointer held in the client's field
ClientGetSigner(c, s) == Return([c EXCEPT !.op = "GetSigner"], ReturnOk(s))

----------------------------------------------------------------------------
(* GetUploadCosts *)

CostErr(m, n, e) == [msg |-> m, byteCount |-> n, cause |-> e]

\* make([]types.UploadCost, len(bytes)) and the loop entry; an empty input
\* returns the empty array at once
CostsEnter(c, bytes) ==
    LET c0 == [c EXCEPT !.op = "GetUploadCosts", !.bytes = bytes,
                        !.costs = [i \in 1..Len(bytes) |-> UploadCost("", 0)]]
    IN  IF Len(bytes) = 0 THEN Return(c0, ReturnOk(c0.costs)) ELSE [c0 EXCEPT !.pc = "costs"]

\* index of the loop iteration about to run
CostIndex(c) == Len(c.answers) + 1

\* Faulty variant of CostsStep: a response that cannot be parsed is skipped and
\* the loop goes on, leaving the zero value in the array
CostsStep_ContinueOnError(c, im, outcome) ==
    LET i == Len(c.answers) + 1
        n == c.bytes[i]
        c1 == [c EXCEPT !.requests = Append(c.requests, HTTPRequest("GET", PriceURL(n), "", <<>>))]
    IN  IF outcome.kind = "build_fail"
        THEN Return(c, ReturnErr(CostErr("failed to create request for byte count",
                                         n, BuildErr)))
        ELSE IF outcome.kind = "net_fail"
        THEN Return(c1, ReturnErr(CostErr("failed to get upload cost for byte count", n, NetErr)))
        ELSE LET c2 == BodyClosed(ResponseArrives(c1, outcome))
                 parsed == ParseJSON(outcome.resp)
                 c3 == [c2 EXCEPT !.costs[i] = IF parsed.err # NoErr THEN @
                                               ELSE DecodeUploadCost(parsed.obj),
                                  !.answers = Append(c2.answers, outcome.resp)]
             IN  IF i = Len(c.bytes) THEN Return(c3, ReturnOk(c3.costs)) ELSE c3

\* one iteration of the loop: GET, ParseJSON, costs[i] = cost; the last
\* iteration returns the array
CostsStep(c, im, outcome) ==
    LET i == CostIndex(c)
        n == c.bytes[i]
        c1 == [c EXCEPT !.requests = Append(c.requests, HTTPRequest("GET", PriceURL(n), "", <<>>))]
    IN  IF outcome.kind = "build_fail"
        THEN Return(c, ReturnErr(CostErr(IF im = "prod"
                                         THEN "failed to create request for byte count"
                                         ELSE "failed to get upload cost for byte count",
                                         n, BuildErr)))
        ELSE IF outcome.kind = "net_fail"
        THEN Return(c1, ReturnErr(CostErr("failed to get upload cost for byte count", n, NetErr)))
        ELSE LET c2 == BodyClosed(ResponseArrives(c1, outcome))
                 parsed == ParseJSON(outcome.resp)
             IN  IF parsed.err # NoErr
                 THEN Return(c2, ReturnErr(CostErr("failed to parse response for byte count",
                                                   n, parsed.err)))
                 ELSE LET c3 == [c2 EXCEPT !.costs[i] = DecodeUploadCost(parsed.obj),
                                           !.answers = Append(c2.answers, outcome.resp)]
                      IN  IF i = Len(c.bytes) THEN Return(c3, ReturnOk(c3.costs)) ELSE c3

----------------------------------------------------------------------------
(* Inputs and environment *)

Statuses == {200, 304, 404, 500}

UploadBodies == {NotJSON, JSON(EmptyObject), JSON([id |-> "abc123", owner |-> "ownerX"])}
BalanceBodies ==
    {NotJSON, JSON(EmptyObject), JSON([winc |-> "", credits |-> "", currency |-> ""]),
     JSON([winc |-> "1000", credits |-> "1.0", currency |-> "USD"])}
CostBodies == {NotJSON, JSON([winc |-> "1000", bytes |-> 1024]),
               JSON([winc |-> "2000", bytes |-> 2048])}

\* what the transport answers to a request it was handed
Answers(bodies) ==
    {TransportFails} \cup {Received(Response(st, b)) : st \in Statuses, b \in bodies}

Outcomes(bodies) == {BuildFails} \cup Answers(bodies)

\* callback bags a caller passes: no bag, and bags with at most one slot set
\* or at most one slot left nil
SlotSets == {S \in SUBSET Slots : Cardinality(S) <= 1 \/ Cardinality(Slots \ S) <= 1}
EventBags == {NilEvents} \cup {EventsWith(S) : S \in SlotSets}

DefaultTags == TagsOf(<<Tag("Content-Type", "text/plain")>>)

\* tag lists handed to CreateDataItem: nil, empty, one tag, a duplicated tag,
\* the same name twice, two tags in either order
TagLists ==
    LET a == Tag("Content-Type", "text/plain")
        b == Tag("App-Name", "app")
        a2 == Tag("Content-Type", "text/html")
    IN  {NilTags, TagsOf(<<>>), TagsOf(<<a>>), TagsOf(<<a, a>>), TagsOf(<<a, a2>>),
         TagsOf(<<a, b>>), TagsOf(<<b, a>>)}

\* the contexts a caller can cancel: the ctx argument and req.Context
ContextIds == {"ctx", "req.Context"}

UploadRequests ==
    {NilRequest} \cup
    {UploadRequest(d, r, DefaultTags, ev, ctx) :
        d \in {NilBytes} \cup {SomeBytes(b) : b \in Payloads},
        r \in {NilReader, FailingReader} \cup {ReaderOf(b) : b \in Payloads},
        ev \in EventBags,
        ctx \in {NilContext, ContextOf("req.Context")}}

\* pre-signed items a caller hands to UploadSignedDataItem
SignedPayloads == {<<0>> \o b : b \in Payloads}

SignedRequests ==
    {NilRequest} \cup
    {SignedDataItemUploadRequest(f, sz, ev) :
        f \in {NilFactory, FailingFactory} \cup {StreamFactory(b) : b \in SignedPayloads},
        sz \in {NilSize} \cup {SizeFactory(Len(b)) : b \in SignedPayloads},
        ev \in EventBags}

\* requests handed to HTTPClient.Do
DoRequests ==
    {Request("GET", UploadURL, NilBody, NilReader, ""),
     Request("POST", UploadURL, JSONBody, NilReader, ""),
     Request("POST", UploadURL, UnsupportedBody, NilReader, ""),
     Request("POST", UploadURL, NilBody, ReaderOf(<<0, 1>>), "application/octet-stream")}

Addresses == {"addr1", "addr2"}
ByteCounts == {1024, 2048}
ByteCountArrays == SeqsUpTo(ByteCounts, MaxCosts)

----------------------------------------------------------------------------
(* TurboFactory: the configuration objects and the clients built from them *)

\* *types.Config, the object behind the pointer
Config(gateway, upload, payment, token, dev) ==
    [GatewayURL |-> gateway, UploadURL |-> upload, PaymentURL |-> payment,
     Token |-> token, DevMode |-> dev]

\* types.DefaultConfig() and types.DevConfig(): each call makes a new object
DefaultConfig ==
    Config("https://arweave.net", "https://upload.ardrive.io", "https://payment.ardrive.io",
           TokenTypeArweave, FALSE)
DevConfig ==
    Config("https://arweave.net", "https://upload.ardrive.dev", "https://payment.ardrive.dev",
           TokenTypeArweave, TRUE)

\* the configurations a caller makes: the presets, and the production URLs
\* with a token type of the caller's choice
CallerConfigs ==
    {DefaultConfig, DevConfig} \cup
    {[DefaultConfig EXCEPT !.Token = t] : t \in {TokenTypeArweave, TokenTypeEthereum}}

\* *TurboConfig of the two-URL factory
TurboConfig(payment, upload) == [PaymentURL |-> payment, UploadURL |-> upload]

\* a nil pointer
Nil == 0

\* no object allocated, no client built
NoObjects ==
    [objects |-> <<>>,        \* the Config objects; a pointer is an index into it
     held |-> <<>>,           \* the pointers the caller holds, in order of creation
     clients |-> <<>>,        \* the clients the factory returned, in order
     last |-> NoReturn]       \* what the last factory call returned

\* &Config{...}: a new object; the pointer to it is its index
Allocate(h, obj) == [h EXCEPT !.objects = Append(@, obj)]
NewPointer(h) == Len(h.objects) + 1

\* AuthenticatedOptions
AuthenticatedOptions(sg, privateKey, token, config) ==
    [nil |-> FALSE, Signer |-> sg, PrivateKey |-> privateKey, Token |-> token,
     Config |-> config]

NilSigner == [kind |-> "nil"]

\* PrivateKey interface{}: nil, a JWK map, a hex string
PrivateKeys == {"nil", "jwk", "hex"}

\* createSignerFromPrivateKey
CreateSignerFromPrivateKey(privateKey, tokenType) ==
    IF tokenType = TokenTypeArweave
    THEN IF privateKey # "jwk"
         THEN [err |-> NewErr("arweave private key must be a JWK map")]
         ELSE [err |-> NoErr, signer |-> ArweaveSigner("created", "ar-address")]
    ELSE IF tokenType = TokenTypeEthereum
    THEN IF privateKey # "hex"
         THEN [err |-> NewErr("ethereum private key must be a hex string")]
         ELSE [err |-> NoErr, signer |-> EthereumSigner("created", "0xeth-address")]
    ELSE [err |-> NewErr("unsupported token type")]

\* the client the options factory returns: it keeps the pointer to the
\* configuration, in the client and in its HTTP client
OptionsClient(config, sg) == [gen |-> "options", config |-> config, signer |-> sg]

\* the client NewAuthenticatedClient returns: it keeps the two URLs and the
\* token of NewUnauthenticatedClient
URLClient(payment, upload, sg) ==
    [gen |-> "urls", paymentURL |-> payment, uploadURL |-> upload,
     token |-> TokenTypeArweave, signer |-> sg]

Deliver(h, client) == [h EXCEPT !.clients = Append(@, client), !.last = ReturnOk(client)]
Refuse(h, e) == [h EXCEPT !.last = ReturnErr(e)]

\* TurboFactory.Authenticated(opts *AuthenticatedOptions)
AuthenticatedWithOptions(h, opts) ==
    IF opts.nil THEN Refuse(h, NewErr("authenticated options are required"))
    ELSE LET made == CreateSignerFromPrivateKey(opts.PrivateKey, opts.Token)
             \* config := types.DefaultConfig(); if opts.Config != nil { config = opts.Config }
             h1 == IF opts.Config # Nil THEN h ELSE Allocate(h, DefaultConfig)
             config == IF opts.Config # Nil THEN opts.Config ELSE NewPointer(h)
             build(sg) ==
                 Deliver([h1 EXCEPT !.objects[config].Token = GetTokenType(sg)],
                         OptionsClient(config, sg))
         IN  IF opts.Signer.kind # "nil" THEN build(opts.Signer)
             ELSE IF opts.PrivateKey # "nil"
             THEN IF made.err # NoErr
                  THEN Refuse(h, Wrap("failed to create signer", made.err))
                  ELSE build(made.signer)
             ELSE Refuse(h, NewErr("either signer or private key must be provided"))

\* TurboFactory.Authenticated(config *TurboConfig, signer)
AuthenticatedWithConfig(h, config, sg) ==
    LET cfg == IF config.nil THEN TurboConfig("https://payment.ardrive.io",
                                              "https://upload.ardrive.io")
               ELSE config
    IN  Deliver(h, URLClient(cfg.PaymentURL, cfg.UploadURL, sg))

\* the token type client `k` is configured with
TokenOf(h, k) ==
    IF h.clients[k].gen = "options" THEN h.objects[h.clients[k].config].Token
    ELSE h.clients[k].token

----------------------------------------------------------------------------
(* The state machine *)

\* the goroutines that call Upload on the one client
Goroutines == {1, 2}

\* nobody is inside Upload
NoCalls ==
    [frame |-> [i \in Goroutines |-> IdleCall],      \* each goroutine's activation record
     passed |-> [i \in Goroutines |-> NilRequest],   \* the request its caller passed
     entered |-> <<>>]                               \* calls in progress, in order of entry

Init ==
    /\ impl \in Impls
    /\ signer \in Signers
    /\ call = IdleCall
    /\ calls = NoCalls
    /\ heap = NoObjects

\* no call is in progress: a new one can begin
Ready == call.pc = "idle"

\* note what collaborator `k` did in this call
Chose(c, k, x) == [c EXCEPT !.env[k] = x]

Upload ==
    /\ Ready
    /\ \E req \in UploadRequests : call' = UploadResolve(IdleCall, req)
    /\ UNCHANGED <<impl, signer, calls, heap>>

\* the item signer is called by the wallet adapters only
Sign ==
    /\ call.pc = "sign"
    /\ \E lib \in ItemSignerOutcomes(signer) :
          call' = UploadSign(Chose(call, "lib", lib), signer, lib)
    /\ UNCHANGED <<impl, signer, calls, heap>>

UploadSignedDataItem ==
    /\ Ready
    /\ \E sreq \in SignedRequests : call' = UploadSignedEnter(IdleCall, sreq)
    /\ UNCHANGED <<impl, signer, calls, heap>>

Stream ==
    /\ call.pc = "stream"
    /\ call' = OpenStream(call)
    /\ UNCHANGED <<impl, signer, calls, heap>>

DoPost ==
    /\ call.pc = "post"
    /\ \E o \in {BuildFails, Built} : call' = Post(Chose(call, "built", o), impl, o)
    /\ UNCHANGED <<impl, signer, calls, heap>>

\* a request whose context is cancelled is aborted by the transport; any
\* other gets the transport's answer
DoReturns ==
    /\ call.pc = "inflight"
    /\ \E o \in (IF Cancelled(call) THEN {Aborted} ELSE Answers(UploadBodies)) :
          call' = ClientDo(Chose(call, "answer", o), o)
    /\ UNCHANGED <<impl, signer, calls, heap>>

\* the caller cancels a context it passed, at any moment up to the return of
\* client.Do
Cancel ==
    /\ call.op \in {"Upload", "UploadSignedDataItem"}
    /\ call.pc \in {"sign", "stream", "post", "inflight"}
    /\ \E id \in ContextIds :
          /\ id = "req.Context" => (call.op = "Upload" /\ ~call.req.Context.nil)
          /\ \A x \in call.cancelled : x.id # id
          /\ call' = [call EXCEPT !.cancelled = @ \cup {[id |-> id, at |-> call.pc]}]
    /\ UNCHANGED <<impl, signer, calls, heap>>

HandleResponse ==
    /\ call.pc = "parse"
    /\ call' = HandleUploadResponse(call)
    /\ UNCHANGED <<impl, signer, calls, heap>>

GetBalance ==
    /\ Ready
    /\ \E a \in Addresses, o \in Outcomes(BalanceBodies) :
          call' = WrappedGetBalance(impl, IdleCall, a, o)
    /\ UNCHANGED <<impl, signer, calls, heap>>

GetBalanceForSigner ==
    /\ Ready
    /\ \E o \in Outcomes(BalanceBodies) : call' = BalanceForSigner(IdleCall, signer, impl, o)
    /\ UNCHANGED <<impl, signer, calls, heap>>

GetSigner ==
    /\ Ready
    /\ call' = ClientGetSigner(IdleCall, signer)
    /\ UNCHANGED <<impl, signer, calls, heap>>

GetUploadCosts ==
    /\ Ready
    /\ \E bytes \in ByteCountArrays : call' = CostsEnter(IdleCall, bytes)
    /\ UNCHANGED <<impl, signer, calls, heap>>

GetUploadCostsLoop ==
    /\ call.pc = "costs"
    /\ \E o \in Outcomes(CostBodies) : call' = CostsStep(call, impl, o)
    /\ UNCHANGED <<impl, signer, calls, heap>>

\* signers.CreateDataItem and Signer.SignDataItem, called on the client's signer
SignItem ==
    /\ Ready
    /\ \E lib \in LibOutcomes, tags \in TagLists,
          data \in {NilBytes} \cup {SomeBytes(b) : b \in Payloads},
          target \in {"", "target"}, anchor \in {"", "anchor"} :
          call' = CreateAndSign(IdleCall, signer, lib, data, tags, target, anchor)
    /\ UNCHANGED <<impl, signer, calls, heap>>

\* HTTPClient.Do
Do ==
    /\ Ready
    /\ \E req \in DoRequests, o \in Outcomes(UploadBodies) \cup {ReadFails} :
          call' = HTTPClientDo(IdleCall, req, o)
    /\ UNCHANGED <<impl, signer, calls, heap>>

\* the caller has the call's return value; the client is ready for the next call
CallReturns ==
    /\ call.pc = "done"
    /\ call' = IdleCall
    /\ UNCHANGED <<impl, signer, calls, heap>>

\* MockSigner.SetSignDataItemError
SetSignDataItemError ==
    /\ Ready
    /\ signer.kind = "mock"
    /\ \E e \in {NoErr, MockSignErr} : signer' = [signer EXCEPT !.SignDataItemError = e]
    /\ UNCHANGED <<impl, call, calls, heap>>

\* MockSigner.SetSignDataItemResult
SetSignDataItemResult ==
    /\ Ready
    /\ signer.kind = "mock"
    /\ \E b \in {<<>>, MockBinary} :
          signer' = [signer EXCEPT !.SignDataItemResult = BundleItem(b)]
    /\ UNCHANGED <<impl, call, calls, heap>>

Next ==
    \/ Upload
    \/ Sign
    \/ UploadSignedDataItem
    \/ Stream
    \/ DoPost
    \/ DoReturns
    \/ Cancel
    \/ HandleResponse
    \/ GetBalance
    \/ GetBalanceForSigner
    \/ GetSigner
    \/ GetUploadCosts
    \/ GetUploadCostsLoop
    \/ SignItem
    \/ Do
    \/ CallReturns
    \/ SetSignDataItemError
    \/ SetSignDataItemResult

Spec == Init /\ [][Next]_vars

----------------------------------------------------------------------------
(* Upload called concurrently from two goroutines on the same client *)

\* the requests goroutine i passes: the two goroutines differ in data and in
\* the callbacks they set
ConcRequests(i) ==
    IF i = 1
    THEN {UploadRequest(SomeBytes(<<1>>), NilReader, DefaultTags, ev, NilContext) :
             ev \in {EventsWith(Slots), EventsWith(Slots \ {"OnUploadStart"})}}
    ELSE {UploadRequest(SomeBytes(<<2>>), NilReader, DefaultTags, ev, NilContext) :
             ev \in {NilEvents, EventsWith({"OnError"}), EventsWith(Slots \ {"OnProgress"})}}

\* the upload service answers a POST with the id of the item it received
ServiceAnswers(request) ==
    {TransportFails, Received(Response(500, NotJSON)),
     Received(Response(200, JSON([id |-> request.body, owner |-> "ownerX"])))}

\* Faulty variant of Frame: the request is kept in a field of the client,
\* which the call that entered last has overwritten
Frame_RequestInClientField(cs, i) ==
    [cs.frame[i] EXCEPT !.req = cs.frame[cs.entered[Len(cs.entered)]].req]

\* what goroutine i works on inside Upload and UploadSignedDataItem: the
\* parameters and locals of its own call
Frame(cs, i) == cs.frame[i]

Store(cs, i, c) ==
    [cs EXCEPT !.frame[i] = c,
               !.entered = IF c.pc = "done" THEN SelectSeq(@, LAMBDA k : k # i) ELSE @]

ConcUpload(i) ==
    /\ calls.frame[i].pc = "idle"
    /\ \E req \in ConcRequests(i) :
          calls' = Store([calls EXCEPT !.passed[i] = req, !.entered = Append(@, i)],
                         i, UploadResolve(IdleCall, req))
    /\ UNCHANGED <<impl, signer, call, heap>>

ConcSign(i) ==
    /\ calls.frame[i].pc = "sign"
    /\ \E lib \in LibOutcomes : calls' = Store(calls, i, UploadSign(Frame(calls, i), signer, lib))
    /\ UNCHANGED <<impl, signer, call, heap>>

ConcStream(i) ==
    /\ calls.frame[i].pc = "stream"
    /\ calls' = Store(calls, i, OpenStream(Frame(calls, i)))
    /\ UNCHANGED <<impl, signer, call, heap>>

ConcPost(i) ==
    /\ calls.frame[i].pc = "post"
    /\ \E o \in {BuildFails, Built} : calls' = Store(calls, i, Post(Frame(calls, i), impl, o))
    /\ UNCHANGED <<impl, signer, call, heap>>

ConcDoReturns(i) ==
    /\ calls.frame[i].pc = "inflight"
    /\ \E o \in ServiceAnswers(calls.frame[i].requests[1]) :
          calls' = Store(calls, i, ClientDo(Frame(calls, i), o))
    /\ UNCHANGED <<impl, signer, call, heap>>

ConcHandleResponse(i) ==
    /\ calls.frame[i].pc = "parse"
    /\ calls' = Store(calls, i, HandleUploadResponse(Frame(calls, i)))
    /\ UNCHANGED <<impl, signer, call, heap>>

ConcReturns(i) ==
    /\ calls.frame[i].pc = "done"
    /\ calls' = [calls EXCEPT !.frame[i] = IdleCall, !.passed[i] = NilRequest]
    /\ UNCHANGED <<impl, signer, call, heap>>

ConcNext ==
    \E i \in Goroutines :
        \/ ConcUpload(i)
        \/ ConcSign(i)
        \/ ConcStream(i)
        \/ ConcPost(i)
        \/ ConcDoReturns(i)
        \/ ConcHandleResponse(i)
        \/ ConcReturns(i)

ConcSpec == Init /\ [][ConcNext]_vars

----------------------------------------------------------------------------
(* The upload request Upload builds, exercised by its holder *)

\* Upload has built uploadReq for the signed item
HoldsUploadRequest == call.op = "Upload" /\ call.pc = "stream"

\* the uploads whose request is exercised: every payload, no callbacks
FactoryRequests ==
    {UploadRequest(SomeBytes(b), NilReader, DefaultTags, NilEvents, NilContext) : b \in Payloads}

FactoryUpload ==
    /\ Ready
    /\ \E req \in FactoryRequests : call' = UploadResolve(IdleCall, req)
    /\ UNCHANGED <<impl, signer, calls, heap>>

\* the holder drops the request
FactoryDone ==
    /\ HoldsUploadRequest
    /\ call' = IdleCall
    /\ UNCHANGED <<impl, signer, calls, heap>>

FactoryInvoke ==
    /\ HoldsUploadRequest
    /\ Len(call.streams) < MaxStreams
    /\ call' = [call EXCEPT !.streams =
                    Append(@, InvokeStreamFactory(call.sreq.DataItemStreamFactory, @))]
    /\ UNCHANGED <<impl, signer, calls, heap>>

FactoryRead ==
    /\ HoldsUploadRequest
    /\ \E k \in 1..Len(call.streams) :
          /\ call.streams[k].pos < Len(call.streams[k].content)
          /\ call' = [call EXCEPT !.streams[k] = ReadStream(@)]
    /\ UNCHANGED <<impl, signer, calls, heap>>

FactoryClose ==
    /\ HoldsUploadRequest
    /\ \E k \in 1..Len(call.streams) :
          /\ ~call.streams[k].closed
          /\ call' = [call EXCEPT !.streams[k].closed = TRUE]
    /\ UNCHANGED <<impl, signer, calls, heap>>

SizeInvoke ==
    /\ HoldsUploadRequest
    /\ Len(call.sizes) < MaxStreams
    /\ call' = [call EXCEPT !.sizes = Append(@, InvokeSizeFactory(call.sreq.DataItemSizeFactory))]
    /\ UNCHANGED <<impl, signer, calls, heap>>

FactoryNext ==
    \/ FactoryUpload
    \/ Sign
    \/ FactoryInvoke
    \/ FactoryRead
    \/ FactoryClose
    \/ SizeInvoke
    \/ FactoryDone
    \/ CallReturns
    \/ SetSignDataItemResult

FactorySpec == Init /\ [][FactoryNext]_vars

----------------------------------------------------------------------------
(* A caller of the factory: it makes configurations and has clients built *)

\* the caller makes a configuration and keeps the pointer
NewConfig ==
    /\ Len(heap.held) < MaxConfigs
    /\ \E obj \in CallerConfigs :
          heap' = [Allocate(heap, obj) EXCEPT !.held = Append(@, NewPointer(heap))]
    /\ UNCHANGED <<impl, signer, call, calls>>

\* the signers the caller has: a wallet of each token type
FactorySigners == {s \in Signers : IsWallet(s)}

\* the options the caller passes: nil, or a signer or a private key, with one
\* of its configurations or none
OptionsPassed ==
    {NilRequest} \cup
    {AuthenticatedOptions(sg, key, token, config) :
        sg \in {NilSigner} \cup FactorySigners,
        key \in PrivateKeys,
        token \in {TokenTypeArweave, TokenTypeEthereum, "solana"},
        config \in {Nil} \cup {heap.held[i] : i \in 1..Len(heap.held)}}

Authenticated ==
    /\ Len(heap.clients) < MaxClients
    /\ \E opts \in OptionsPassed : heap' = AuthenticatedWithOptions(heap, opts)
    /\ UNCHANGED <<impl, signer, call, calls>>

TurboConfigsPassed ==
    {NilRequest} \cup
    {[nil |-> FALSE, PaymentURL |-> "https://payment.ardrive.dev",
      UploadURL |-> "https://upload.ardrive.dev"]}

AuthenticatedFromURLs ==
    /\ Len(heap.clients) < MaxClients
    /\ \E config \in TurboConfigsPassed, sg \in FactorySigners :
          heap' = AuthenticatedWithConfig(heap, config, sg)
    /\ UNCHANGED <<impl, signer, call, calls>>

ConfigNext ==
    \/ NewConfig
    \/ Authenticated
    \/ AuthenticatedFromURLs

\* the caller has made no configuration and no client yet
ConfigInit ==
    /\ impl = "prod"
    /\ signer = NilSigner
    /\ call = IdleCall
    /\ calls = NoCalls
    /\ heap = NoObjects

ConfigSpec == ConfigInit /\ [][ConfigNext]_vars

----------------------------------------------------------------------------
(* Vocabulary of the properties *)

Returned == call.pc = "done"

\* the callback bag of the call in progress
Bag(c) ==
    IF c.op = "Upload" /\ ~c.req.nil THEN c.req.Events
    ELSE IF c.op = "UploadSignedDataItem" /\ ~c.sreq.nil THEN c.sreq.Events
    ELSE NilEvents

AllSlots == EventsWith(Slots)

\* the events of `seq` whose callback slot is set in bag `ev`
Restrict(seq, ev) == SelectSeq(seq, LAMBDA e : HasSlot(ev, e.name))

Names(seq) == [i \in 1..Len(seq) |-> seq[i].name]

Is2xx(resp) == resp.status >= 200 /\ resp.status <= 299
Decodable(resp) == Is2xx(resp) /\ resp.body.valid

SignerSucceeded(c) == c.signed.kind = "ok"
SignerFailed(c) == c.signed.kind = "err"

\* the event sequence of a successful upload of `c`
SuccessSequence(c) ==
    LET n == Len(c.data)
        m == Len(c.signed.val.ItemBinary)
    IN  << ProgressEvent("signing", 0, n),
           StageEvent("OnSigningSuccess"),
           ProgressEvent("signing", n, n),
           StageEvent("OnUploadStart"),
           ProgressEvent("uploading", 0, m),
           UploadSuccessEvent(DecodeUploadResult(c.got.resp.body.obj)),
           ProgressEvent("uploading", m, m) >>

\* the event sequence of an upload of `c` whose signer failed with `e`
SigningFailureSequence(c, e) ==
    << ProgressEvent("signing", 0, Len(c.data)),
       StageError("OnSigningError", e),
       ErrorEvent(e, "signing") >>

----------------------------------------------------------------------------
(* Properties *)

\* C1: an Upload whose signer succeeds and whose POST is answered by a decodable
\* 2xx response has fired, when it returns, exactly progress(signing, 0 of N),
\* OnSigningSuccess, progress(signing, N of N), OnUploadStart,
\* progress(uploading, 0 of M), OnUploadSuccess, progress(uploading, M of M), in
\* this order, each once (the callbacks whose slot is nil are skipped), and no
\* other callback: OnSigningStart and the error callbacks never fire.
C1_SuccessEventOrder ==
    (/\ call.op = "Upload"
     /\ Returned
     /\ SignerSucceeded(call)
     /\ call.got.kind = "response"
     /\ Decodable(call.got.resp))
    => /\ call.fired = Restrict(SuccessSequence(call), Bag(call))
       /\ call.ret.kind = "ok"

C1_Witness ==
    /\ call.op = "Upload"
    /\ Returned
    /\ Bag(call) = AllSlots
    /\ Len(call.data) > 0
    /\ Names(call.fired) = <<"OnProgress", "OnSigningSuccess", "OnProgress", "OnUploadStart",
                             "OnProgress", "OnUploadSuccess", "OnProgress">>

\* C2: an Upload whose signer returns an error has fired exactly
\* progress(signing, 0), OnSigningError, OnError(stage "signing"), in this order,
\* returns an error, and never attempts the upload phase: no stream-factory
\* call, no HTTP request, no upload-stage callback.
C2_SigningFailure ==
    (call.op = "Upload" /\ SignerFailed(call))
    => /\ Returned
       /\ call.ret.kind = "err"
       /\ call.fired = Restrict(SigningFailureSequence(call, call.signed.err), Bag(call))
       /\ call.factoryCalls = 0
       /\ call.requests = <<>>
       /\ \A i \in 1..Len(call.fired) :
             /\ call.fired[i].name \notin {"OnUploadStart", "OnUploadSuccess", "OnUploadError"}
             /\ call.fired[i].name \in {"OnProgress", "OnError"} => call.fired[i].Step = "signing"

C2_Witness ==
    /\ call.op = "Upload"
    /\ SignerFailed(call)
    /\ Bag(call) = AllSlots
    /\ Names(call.fired) = <<"OnProgress", "OnSigningError", "OnError">>
    /\ call.ret.kind = "err"

\* the request gives Upload no input: it is nil, or has neither Data nor a
\* DataReader that can be drained
Unresolvable(req) == req.nil \/ (req.Data.nil /\ req.DataReader.kind \in {"nil", "fail"})

\* C3: an Upload that cannot resolve its input returns an error and does
\* nothing else: no callback is invoked, the signer is not called, no stream
\* is opened and no HTTP request is issued.
C3_ValidationFailure ==
    (call.op = "Upload" /\ Unresolvable(call.req))
    => /\ Returned
       /\ call.ret.kind = "err"
       /\ call.fired = <<>>
       /\ call.dataItems = <<>>
       /\ call.factoryCalls = 0
       /\ call.requests = <<>>

C3_Witness ==
    /\ call.op = "Upload"
    /\ Returned
    /\ ~call.req.nil
    /\ call.req.Data.nil
    /\ call.req.DataReader.kind = "fail"
    /\ Bag(call) = AllSlots
    /\ call.ret.kind = "err"

\* C4: a signed item of length zero returned without an error is treated by
\* Upload as a signing failure, whatever the signer: the call ends there with
\* an error, after progress(signing, 0), OnSigningError and OnError, and no
\* POST is issued.
C4_EmptyBinaryIsSigningFailure ==
    (/\ call.op = "Upload"
     /\ SignerSucceeded(call)
     /\ Len(call.signed.val.ItemBinary) = 0)
    => /\ Returned
       /\ call.ret.kind = "err"
       /\ call.requests = <<>>
       /\ Names(call.fired) =
             Names(Restrict(SigningFailureSequence(call, NoErr), Bag(call)))

\* the call is in, or has been through, UploadSignedDataItem with a request
UploadPhase(c) ==
    /\ \/ c.op = "UploadSignedDataItem"
       \/ c.op = "Upload" /\ SignerSucceeded(c)
    /\ ~c.sreq.nil

\* the error itself and, when it wraps one, the error it wraps
Causes(e) == {e} \cup (IF "cause" \in DOMAIN e THEN {e.cause} ELSE {})

EndsWith(seq, tail) ==
    /\ Len(tail) <= Len(seq)
    /\ SubSeq(seq, Len(seq) - Len(tail) + 1, Len(seq)) = tail

\* the two error events of a failed upload stage
UploadFailureEvents(e) == << StageError("OnUploadError", e), ErrorEvent(e, "uploading") >>

\* C5: every failure of UploadSignedDataItem with a non-nil request (stream
\* factory, request construction, transport, non-2xx status, undecodable body)
\* ends with OnUploadError and then OnError(stage "uploading") carrying that
\* failure, and returns an error.
C5_UploadFailureFiresErrorEvents ==
    (UploadPhase(call) /\ Returned /\ call.ret.kind = "err")
    => \E e \in Causes(call.ret.err) :
          EndsWith(call.fired, Restrict(UploadFailureEvents(e), Bag(call)))

StreamObtained(c) == c.factoryCalls > 0 /\ c.sreq.DataItemStreamFactory.kind = "ok"

\* C6: the stream obtained from DataItemStreamFactory is closed before
\* UploadSignedDataItem returns, on every exit path; no call has returned with
\* its stream open, and a stream is open only between the factory call and the
\* return.
C6_StreamClosedOnReturn ==
    /\ Returned => call.stream # "open"
    /\ (Returned /\ StreamObtained(call)) => call.stream = "closed"
    /\ call.stream = "open" => (StreamObtained(call) /\ call.pc \in {"post", "inflight", "parse"})

C6_Witness ==
    /\ Returned
    /\ StreamObtained(call)
    /\ call.stream = "closed"
    /\ call.ret.kind = "err"
    /\ call.got.kind = "response"
    /\ Is2xx(call.got.resp)

PriceRequest(n) == HTTPRequest("GET", PriceURL(n), "", <<>>)

\* C7: GetUploadCosts issues one GET per byte count, in input order; it returns
\* either an array as long as the input whose i-th element is decoded from the
\* i-th response, or the error of the first failing request, after which no
\* further request is issued and no array is returned.
C7_UploadCostsOrder ==
    call.op = "GetUploadCosts"
    => /\ Len(call.requests) <= Len(call.bytes)
       /\ \A j \in 1..Len(call.requests) : call.requests[j] = PriceRequest(call.bytes[j])
       /\ (Returned /\ call.ret.kind = "ok")
          => /\ Len(call.ret.val) = Len(call.bytes)
             /\ Len(call.requests) = Len(call.bytes)
             /\ Len(call.answers) = Len(call.bytes)
             /\ \A i \in 1..Len(call.bytes) :
                   /\ Decodable(call.answers[i])
                   /\ call.ret.val[i] = DecodeUploadCost(call.answers[i].body.obj)
       /\ (Returned /\ call.ret.kind # "ok")
          => /\ call.ret.kind = "err"
             /\ "val" \notin DOMAIN call.ret
             /\ Len(call.answers) < Len(call.bytes)
             /\ \A i \in 1..Len(call.answers) : Decodable(call.answers[i])
             /\ call.ret.err.byteCount = call.bytes[Len(call.answers) + 1]
             /\ Len(call.requests) \in {Len(call.answers), Len(call.answers) + 1}

C7_Witness ==
    /\ call.op = "GetUploadCosts"
    /\ Returned
    /\ call.ret.kind = "ok"
    /\ Len(call.bytes) = 2
    /\ call.bytes[1] # call.bytes[2]
    /\ call.ret.val[1] # call.ret.val[2]

\* the default zero balance
ZeroBalance == Balance("0", "0", "USD")

\* the service answered 2xx with a JSON object whose winc is empty or absent
EmptyCredit(resp) == Decodable(resp) /\ Field(resp.body.obj, "winc", "") = ""

\* C8: GetBalance of the production client returns the zero balance and no
\* error when the service answers 404 and when it answers 2xx with an empty or
\* absent winc field; in both cases the value is the same, equal in every
\* field to the default zero balance.
C8_ZeroBalance ==
    (/\ impl = "prod"
     /\ call.op = "GetBalance"
     /\ Returned
     /\ call.got.kind = "response"
     /\ (call.got.resp.status = 404 \/ EmptyCredit(call.got.resp)))
    => call.ret = ReturnOk(ZeroBalance)

C8_Witness ==
    /\ impl = "prod"
    /\ call.op = "GetBalance"
    /\ Returned
    /\ call.got.kind = "response"
    /\ call.got.resp.status = 404
    /\ call.ret.kind = "ok"

\* the four ways an Upload ends
EndedInValidation(c) ==
    /\ c.ret.kind = "err"
    /\ c.dataItems = <<>> /\ c.factoryCalls = 0 /\ c.requests = <<>>
EndedAtSigning(c) ==
    /\ c.ret.kind = "err"
    /\ Len(c.dataItems) = 1 /\ SignerFailed(c) /\ c.factoryCalls = 0 /\ c.requests = <<>>
EndedAtUpload(c) ==
    /\ c.ret.kind = "err"
    /\ Len(c.dataItems) = 1 /\ SignerSucceeded(c) /\ c.factoryCalls = 1
EndedInSuccess(c) ==
    /\ c.ret.kind = "ok"
    /\ Len(c.dataItems) = 1 /\ SignerSucceeded(c) /\ c.factoryCalls = 1 /\ Len(c.requests) = 1

UploadEndings(c) ==
    << EndedInValidation(c), EndedAtSigning(c), EndedAtUpload(c), EndedInSuccess(c) >>

UploadIsLinear ==
    call.op = "Upload"
    => /\ Len(call.dataItems) <= 1
       /\ call.factoryCalls <= 1
       /\ Len(call.requests) <= 1
       /\ call.factoryCalls > 0 => (SignerSucceeded(call) /\ Len(call.dataItems) = 1)
       /\ call.requests # <<>> => (SignerSucceeded(call) /\ call.factoryCalls = 1)
       /\ Returned => Cardinality({k \in 1..4 : UploadEndings(call)[k]}) = 1

\* once a call has returned, its record changes no more: the next step, if
\* any, hands the client back for the next call
NothingAfterReturn == Returned => call' = IdleCall

\* C9: an Upload is linear, without retry: SignDataItem, the stream factory and
\* the POST are each invoked at most once, the POST only after SignDataItem
\* succeeded; the call ends in exactly one of validation failure,
\* failed-at-signing, failed-at-upload, succeeded; and after it has returned no
\* further signer call, transport call or callback happens.
C9_LinearNoRetry == [](UploadIsLinear) /\ [][NothingAfterReturn]_vars

C9_Witness ==
    /\ call.op = "Upload"
    /\ Returned
    /\ EndedAtUpload(call)
    /\ Len(call.requests) = 1

IsSigningStart(e) == e.name = "OnProgress" /\ e.Step = "signing" /\ e.ProcessedBytes = 0
IsUploadStart(e) ==
    \/ e.name = "OnUploadStart"
    \/ e.name = "OnProgress" /\ e.Step = "uploading" /\ e.ProcessedBytes = 0

\* after position i, the stage's error callback and OnError for the stage
\* have fired (each when its slot is set)
ErrorsFiredAfter(c, i, slot, stage) ==
    /\ HasSlot(Bag(c), slot)
       => \E j \in (i + 1)..Len(c.fired) : c.fired[j].name = slot
    /\ HasSlot(Bag(c), "OnError")
       => \E j \in (i + 1)..Len(c.fired) :
             c.fired[j].name = "OnError" /\ c.fired[j].Step = stage

\* C10: when Upload or UploadSignedDataItem returns a failure after the start
\* event of the failing stage was emitted (progress(signing, 0); OnUploadStart
\* or progress(uploading, 0)), the stage's error callback and OnError for that
\* stage were emitted after it and before the return.
C10_StartedStageGetsErrorEvents ==
    (call.op \in {"Upload", "UploadSignedDataItem"} /\ Returned /\ call.ret.kind = "err")
    => \A i \in 1..Len(call.fired) :
          /\ IsUploadStart(call.fired[i])
             => ErrorsFiredAfter(call, i, "OnUploadError", "uploading")
          /\ (IsSigningStart(call.fired[i]) /\ ~SignerSucceeded(call))
             => ErrorsFiredAfter(call, i, "OnSigningError", "signing")

C10_Witness ==
    /\ call.op = "UploadSignedDataItem"
    /\ Returned
    /\ call.ret.kind = "err"
    /\ Bag(call) = AllSlots
    /\ Names(call.fired) = <<"OnUploadStart", "OnProgress", "OnUploadError", "OnError">>

\* the stage at which a failed upload failed, and that stage's error slot
FailedStage(c) == IF SignerFailed(c) THEN "signing" ELSE "uploading"
ErrorSlotOf(stage) == IF stage = "signing" THEN "OnSigningError" ELSE "OnUploadError"

\* a stage of the upload failed: the signer returned an error, or
\* UploadSignedDataItem returned one for a non-nil request
StageFailed(c) ==
    /\ c.pc = "done"
    /\ c.ret.kind = "err"
    /\ SignerFailed(c) \/ UploadPhase(c)

\* the error the failed stage reported
StageErrors(c) == IF SignerFailed(c) THEN {c.signed.err} ELSE Causes(c.ret.err)

Count(seq, name) == Len(SelectSeq(seq, LAMBDA e : e.name = name))

\* C11: whenever a stage of an upload fails, the stage's error callback fires
\* and then OnError, each exactly once for the call (a nil slot is skipped and
\* the other still fires), OnError carrying the same error value and the name
\* of the failed stage.
C11_ErrorSlotsFireTogether ==
    StageFailed(call)
    => LET stage == FailedStage(call)
           slot == ErrorSlotOf(stage)
       IN  /\ \E e \in StageErrors(call) :
                 EndsWith(call.fired,
                          Restrict(<<StageError(slot, e), ErrorEvent(e, stage)>>, Bag(call)))
           /\ Count(call.fired, slot) = IF HasSlot(Bag(call), slot) THEN 1 ELSE 0
           /\ Count(call.fired, "OnError") = IF HasSlot(Bag(call), "OnError") THEN 1 ELSE 0

\* the context of the upload was cancelled while client.Do was waiting
CancelledInFlight(c) ==
    \E x \in c.cancelled : x.id = c.uploadCtx.id /\ x.at = "inflight"

\* the step that follows a cancellation in flight returns the failure
AbortedOnCancel ==
    (/\ call.pc = "inflight"
     /\ Cancelled(call)
     /\ call' # call
     /\ call'.cancelled = call.cancelled)
    => /\ call'.pc = "done"
       /\ call'.ret.kind = "err"
       /\ RootCause(call'.ret.err) = CtxErr
       /\ call'.wire = "aborted"
       /\ call'.stream = "closed"
       /\ call'.got = NoResponse
       /\ EndsWith(call'.fired, Restrict(UploadFailureEvents(CtxErr), Bag(call)))

\* C13: when the context an upload runs under is cancelled while the POST is
\* in flight, the request is aborted, OnUploadError and OnError(stage
\* "uploading") fire, the call returns an error and the stream obtained from
\* the factory is closed before it returns; no call has returned with its
\* POST still in flight.
C13_CancellationAborts ==
    /\ [][AbortedOnCancel]_vars
    /\ [](Returned => call.wire # "sent")
    /\ []((Returned /\ CancelledInFlight(call))
          => (call.ret.kind = "err" /\ call.wire = "aborted" /\ call.stream = "closed"))

C13_Witness ==
    /\ call.op = "Upload"
    /\ Returned
    /\ CancelledInFlight(call)
    /\ ~call.req.Context.nil
    /\ call.wire = "aborted"
    /\ call.stream = "closed"
    /\ Bag(call) = AllSlots
    /\ Names(call.fired) = <<"OnProgress", "OnSigningSuccess", "OnProgress", "OnUploadStart",
                             "OnProgress", "OnUploadError", "OnError">>

\* the signed binary the signer produces for the data of request `req`
OwnSigned(req) ==
    IF signer.kind = "mock" THEN signer.SignDataItemResult.ItemBinary
    ELSE SignedBinary(CreateDataItem(req.Data, req.Tags, req.Target, req.Anchor))

\* the events a call with record `f` and callback bag `ev` has to have fired
\* when it returns
ExpectedEvents(f, ev) ==
    IF SignerFailed(f) THEN Restrict(SigningFailureSequence(f, f.signed.err), ev)
    ELSE IF f.ret.kind = "ok" THEN Restrict(SuccessSequence(f), ev)
    ELSE LET started == << ProgressEvent("signing", 0, Len(f.data)),
                           StageEvent("OnSigningSuccess"),
                           ProgressEvent("signing", Len(f.data), Len(f.data)),
                           StageEvent("OnUploadStart"),
                           ProgressEvent("uploading", 0, Len(f.signed.val.ItemBinary)) >>
             e == CHOOSE x \in Causes(f.ret.err) :
                     \/ x \in {BuildErr, NetErr, CtxErr}
                     \/ x = f.ret.err /\ "cause" \notin DOMAIN x
                     \/ x = f.ret.err /\ x.cause = JSONErr
         IN  Restrict(started \o UploadFailureEvents(e), ev)

\* goroutine i's call works on its own request only
OwnCall(i) ==
    LET f == calls.frame[i]
        req == calls.passed[i]
    IN  f.op = "Upload"
        => /\ f.req = req
           /\ f.data = req.Data.bytes
           /\ \A k \in 1..Len(f.dataItems) :
                 f.dataItems[k] = CreateDataItem(req.Data, req.Tags, req.Target, req.Anchor)
           /\ \A k \in 1..Len(f.fired) : HasSlot(req.Events, f.fired[k].name)
           /\ \A k \in 1..Len(f.requests) : f.requests[k].body = OwnSigned(req)
           /\ f.got.kind = "response" => f.got \in ServiceAnswers(f.requests[1])
           /\ f.pc = "done" => f.fired = ExpectedEvents(f, req.Events)
           /\ (f.pc = "done" /\ f.ret.kind = "ok")
              => f.ret.val = UploadResult(OwnSigned(req), "ownerX")

\* a step of one goroutine reads and writes its own record: the record of the
\* other goroutine and the client are left as they were
StepsAreLocal ==
    \A i \in Goroutines :
        calls'.frame[i] # calls.frame[i]
        => /\ \A j \in Goroutines \ {i} :
                 calls'.frame[j] = calls.frame[j] /\ calls'.passed[j] = calls.passed[j]
           /\ signer' = signer
           /\ impl' = impl

\* C12: two Upload calls running concurrently on the same client with
\* different requests: under every interleaving each call invokes only the
\* callbacks of its own request, in the order required of it, POSTs the signed
\* binary produced for its own data and returns the result of its own POST;
\* no step of one call touches the state of the other.
C12_ConcurrentUploadsIndependent ==
    /\ [](\A i \in Goroutines : OwnCall(i))
    /\ [][StepsAreLocal]_vars

C12_Witness ==
    /\ Len(calls.entered) = 2
    /\ calls.frame[1].pc = "parse"
    /\ calls.frame[2].pc = "parse"
    /\ Is2xx(calls.frame[1].got.resp)
    /\ Is2xx(calls.frame[2].got.resp)
    /\ calls.frame[1].got # calls.frame[2].got
    /\ calls.frame[1].fired # <<>>
    /\ calls.frame[2].fired # <<>>

\* the operations that hand the verdict on a response to their caller; the
\* production GetBalance answers a 404 with the zero balance
SurfacesStatus(c) ==
    ~(c.op \in {"GetBalance", "GetBalanceForSigner"} /\ impl = "prod"
      /\ c.got.resp.status = 404)

\* the error is an HTTP-status error; it carries the status code and the raw body
IsStatusError(e, resp) == e = HTTPStatusErr(resp)
\* the error is a decode error
IsDecodeError(e) == e = Wrap("failed to decode JSON response", JSONErr)

\* C14: a response with a status outside 200..299 reaches the caller as an
\* error that carries the status code and the raw body, never as a success,
\* and a 2xx response whose body does not decode as a decode error, which is
\* not an HTTP-status error; for the operations built on ParseJSON and for
\* HTTPClient.Do alike.
C14_NonSuccessStatusIsError ==
    (Returned /\ call.got.kind = "response" /\ SurfacesStatus(call))
    => LET resp == call.got.resp
       IN  /\ ~Is2xx(resp)
              => /\ call.ret.kind = "err"
                 /\ \E e \in Causes(call.ret.err) : IsStatusError(e, resp)
           /\ (Is2xx(resp) /\ ~resp.body.valid /\ call.op # "Do")
              => /\ call.ret.kind = "err"
                 /\ \E e \in Causes(call.ret.err) : IsDecodeError(e)
                 /\ \A e \in Causes(call.ret.err) : "status" \notin DOMAIN e

\* C15: the bytes Upload hands to the signer are the request's Data when Data
\* is set (empty included), and otherwise the whole content of DataReader,
\* drained once to the end of the stream; when both are set Data is used and
\* DataReader is never read.
C15_InputResolution ==
    (call.op = "Upload" /\ ~call.req.nil)
    => /\ ~call.req.Data.nil => call.readerReads = 0
       /\ \A k \in 1..Len(call.dataItems) :
             IF ~call.req.Data.nil
             THEN call.dataItems[k].Data = SomeBytes(call.req.Data.bytes)
             ELSE /\ call.req.DataReader.kind = "ok"
                  /\ call.readerReads = 1
                  /\ call.dataItems[k].Data = SomeBytes(call.req.DataReader.content)

C15_Witness ==
    /\ call.op = "Upload"
    /\ Len(call.dataItems) = 1
    /\ ~call.req.Data.nil
    /\ call.req.DataReader.kind = "ok"
    /\ call.req.DataReader.content # call.req.Data.bytes
    /\ call.dataItems[1].Data.bytes = call.req.Data.bytes

\* the arguments CreateDataItem was called with
CreateArgs(c) ==
    IF c.op = "SignDataItem" THEN c.args
    ELSE [data |-> SomeBytes(c.data), tags |-> c.req.Tags,
          target |-> c.req.Target, anchor |-> c.req.Anchor]

\* tag lists agree in number, order, names and values
SameTags(tags, goarTags) ==
    LET xs == Elements(tags, "list")
        ys == Elements(goarTags, "list")
    IN  /\ Len(xs) = Len(ys)
        /\ \A i \in 1..Len(xs) : xs[i].Name = ys[i].Name /\ xs[i].Value = ys[i].Value

\* C16: CreateDataItem yields a DataItem with the data bytes, target and anchor
\* it was given and the same tags in the same order and number, for nil data,
\* nil, empty and duplicate tags too; a wallet adapter's SignDataItem hands
\* the item signer that data, target and anchor and the tags in that same
\* order, none dropped, reordered or deduplicated.
C16_DataItemPreservesInput ==
    (call.op \in {"Upload", "SignDataItem"} /\ call.dataItems # <<>>)
    => LET given == CreateArgs(call)
           item == call.dataItems[1]
       IN  /\ item.Data = given.data
           /\ item.Tags = given.tags
           /\ item.Target = given.target
           /\ item.Anchor = given.anchor
           /\ IsWallet(signer)
              => /\ Len(call.libCalls) = Len(call.dataItems)
                 /\ call.libCalls[1].data = given.data
                 /\ call.libCalls[1].target = given.target
                 /\ call.libCalls[1].anchor = given.anchor
                 /\ SameTags(given.tags, call.libCalls[1].tags)

C16_Witness ==
    /\ call.op = "SignDataItem"
    /\ signer.kind = "ethereum"
    /\ call.args.data.nil
    /\ ~call.args.tags.nil
    /\ Len(call.args.tags.list) = 2
    /\ call.args.tags.list[1] = call.args.tags.list[2]
    /\ Len(call.libCalls) = 1
    /\ Len(call.libCalls[1].tags.list) = 2

IsPrefix(p, s) == Len(p) <= Len(s) /\ SubSeq(s, 1, Len(p)) = p

\* a stream taken from the factory delivers the signed binary from its start
DeliversBinary(st, bin) ==
    /\ st.content = bin
    /\ st.pos = Len(st.read)
    /\ IsPrefix(st.read, bin)

\* a factory invocation hands out a fresh stream and leaves the earlier ones
\* as they are
FreshStream ==
    Len(call'.streams) = Len(call.streams) + 1
    => /\ call'.streams[Len(call'.streams)].pos = 0
       /\ call'.streams[Len(call'.streams)].read = <<>>
       /\ ~call'.streams[Len(call'.streams)].closed
       /\ SubSeq(call'.streams, 1, Len(call.streams)) = call.streams
       /\ call'.dataItems = call.dataItems

\* C17: each invocation of the stream factory Upload builds returns a fresh
\* stream, positioned at the start, whose content is the signed binary; the
\* size factory returns the length of that binary; however often the
\* factories are invoked the signer is called once, and what was read from, or
\* the closing of, an earlier stream does not affect a later one.
C17_FreshStreamPerInvocation ==
    /\ [](HoldsUploadRequest
          => /\ \A k \in 1..Len(call.streams) :
                   DeliversBinary(call.streams[k], call.signed.val.ItemBinary)
             /\ \A k \in 1..Len(call.sizes) :
                   call.sizes[k] = Len(call.signed.val.ItemBinary)
             /\ Len(call.dataItems) = 1)
    /\ [][FreshStream]_vars

C17_Witness ==
    /\ HoldsUploadRequest
    /\ Len(call.streams) = 2
    /\ call.streams[1].closed
    /\ call.streams[1].pos = 1
    /\ ~call.streams[2].closed
    /\ Len(call.signed.val.ItemBinary) >= 2
    /\ call.streams[2].read = call.signed.val.ItemBinary
    /\ call.sizes = <<Len(call.signed.val.ItemBinary)>>

\* C18: every request an upload issues is a POST to {uploadURL}/v1/tx with
\* Content-Type application/octet-stream whose body is the content of the
\* stream obtained from the factory; in Upload that is the signer's signed
\* binary, not the raw input.  On success the result returned is the one
\* decoded from the response to that request, and it is the value
\* OnUploadSuccess was called with.
C18_UploadRequestAndResult ==
    call.op \in {"Upload", "UploadSignedDataItem"}
    => /\ \A k \in 1..Len(call.requests) :
             /\ call.requests[k].method = "POST"
             /\ call.requests[k].url = UploadURL
             /\ call.requests[k].contentType = "application/octet-stream"
             /\ call.stream # "none"
             /\ call.requests[k].body = call.sreq.DataItemStreamFactory.content
             /\ call.op = "Upload"
                => /\ call.requests[k].body = call.signed.val.ItemBinary
                   /\ IsWallet(signer)
                      => /\ call.requests[k].body = SignedBinary(call.dataItems[1])
                         /\ call.requests[k].body # call.data
       /\ (Returned /\ call.ret.kind = "ok")
          => /\ Len(call.requests) = 1
             /\ call.got.kind = "response"
             /\ Decodable(call.got.resp)
             /\ call.ret.val = DecodeUploadResult(call.got.resp.body.obj)
             /\ Count(call.fired, "OnUploadSuccess")
                   = IF HasSlot(Bag(call), "OnUploadSuccess") THEN 1 ELSE 0
             /\ \A k \in 1..Len(call.fired) :
                   call.fired[k].name = "OnUploadSuccess"
                   => call.fired[k].result = call.ret.val

C18_Witness ==
    /\ call.op = "Upload"
    /\ signer.kind = "arweave"
    /\ Returned
    /\ call.ret.kind = "ok"
    /\ call.ret.val.ID = "abc123"
    /\ Len(call.data) > 0
    /\ call.requests[1].body = <<0>> \o call.data
    /\ HasSlot(Bag(call), "OnUploadSuccess")

\* the request of call `c` with the callback bag `ev` in place of its own
WithEvents(req, ev) == IF req.nil THEN req ELSE [req EXCEPT !.Events = ev]

\* the run has no counterpart: it needs a collaborator the call never reached
Diverged == [IdleCall EXCEPT !.pc = "diverged"]

\* the call `c` made again with callback bag `ev`: the same request data, the
\* same signer, the same answers of the collaborators, the same cancellations
Replay(c, ev) ==
    LET c0 == [IdleCall EXCEPT !.cancelled = c.cancelled, !.env = c.env]
        s1 == IF c.op = "Upload" THEN UploadResolve(c0, WithEvents(c.req, ev))
              ELSE UploadSignedEnter(c0, WithEvents(c.sreq, ev))
        s2 == IF s1.pc # "sign" THEN s1
              ELSE IF c.env.lib = "none" THEN Diverged
              ELSE UploadSign(s1, signer, c.env.lib)
        s3 == IF s2.pc = "stream" THEN OpenStream(s2) ELSE s2
        s4 == IF s3.pc # "post" THEN s3
              ELSE IF c.env.built = NoReturn THEN Diverged
              ELSE Post(s3, impl, c.env.built)
        s5 == IF s4.pc # "inflight" THEN s4
              ELSE IF c.env.answer = NoReturn THEN Diverged
              ELSE ClientDo(s4, c.env.answer)
    IN  IF s5.pc = "parse" THEN HandleUploadResponse(s5) ELSE s5

\* what a call did apart from its callbacks: its outcome and its calls to the
\* signer, the stream factory and the transport
Observable(c) ==
    [pc |-> c.pc, ret |-> c.ret, dataItems |-> c.dataItems, libCalls |-> c.libCalls,
     signed |-> c.signed, factoryCalls |-> c.factoryCalls, stream |-> c.stream,
     requests |-> c.requests, wire |-> c.wire, got |-> c.got]

\* C19: a nil Events bag and a nil callback slot are skipped without any other
\* effect: with the same request data, signer and transport behaviour, Upload
\* and UploadSignedDataItem return the same result or error and make the same
\* signer and transport calls whichever callback slots are set, and the
\* callbacks that are set fire in the same relative order.
C19_NilCallbacksAreNoOps ==
    (call.op \in {"Upload", "UploadSignedDataItem"} /\ Returned)
    => \A ev \in {NilEvents, AllSlots} :
          LET ref == Replay(call, ev)
          IN  /\ Observable(ref) = Observable(call)
              /\ Restrict(ref.fired, Bag(call)) = Restrict(call.fired, ev)

\* the error and every error it wraps, down to the innermost
RECURSIVE Chain(_)
Chain(e) == {e} \cup (IF "cause" \in DOMAIN e THEN Chain(e.cause) ELSE {})

\* the stage a wrapping message names
StageNamedBy(msg) ==
    IF msg = "failed to sign data item" THEN "signing"
    ELSE IF msg \in {"failed to upload data item", "failed to create upload request",
                     "failed to create data stream"} THEN "uploading"
    ELSE "none"

\* the error a collaborator of Upload failed with: the signer's, the
\* transport's, the HTTP status of the answer, the decoder's
CollaboratorError(c) ==
    IF SignerFailed(c) THEN {c.signed.err}
    ELSE IF c.wire = "failed" THEN {NetErr}
    ELSE IF c.wire = "aborted" THEN {CtxErr}
    ELSE IF c.got.kind = "response" /\ ~Is2xx(c.got.resp) THEN {HTTPStatusErr(c.got.resp)}
    ELSE IF c.got.kind = "response" /\ ~c.got.resp.body.valid THEN {JSONErr}
    ELSE {}

\* C20: every error Upload returns because a collaborator failed (the signer,
\* the transport, a non-2xx answer, an answer that does not decode) is that
\* collaborator's error wrapped with the name of the failing stage, signing or
\* uploading, and the original error can be retrieved from it.
C20_ErrorsWrappedWithStage ==
    (call.op = "Upload" /\ Returned /\ call.ret.kind = "err" /\ CollaboratorError(call) # {})
    => /\ "cause" \in DOMAIN call.ret.err
       /\ StageNamedBy(call.ret.err.msg) = FailedStage(call)
       /\ \E e \in CollaboratorError(call) : e \in Chain(call.ret.err.cause)

\* the operations of the authenticated client
ClientOperations ==
    {"Upload", "GetBalanceForSigner", "GetBalance", "GetUploadCosts", "GetSigner",
     "UploadSignedDataItem"}

\* a step of an operation of the client leaves the signer it holds, and the
\* object behind it, as they are; only the owner of a mock reconfigures it,
\* and the instance stays the same
SignerIsKept ==
    /\ signer'.ref = signer.ref
    /\ signer'.kind = signer.kind
    /\ call' # call => signer' = signer

\* C21: whatever operations of the authenticated client have run before
\* (Upload, GetBalanceForSigner, GetBalance, GetUploadCosts, GetSigner), with
\* whatever outcome, GetSigner returns the very signer instance the client was
\* constructed with; no operation replaces the signer.
C21_SignerNeverReplaced ==
    /\ [][SignerIsKept]_vars
    /\ []((call.op = "GetSigner" /\ Returned)
          => (call.ret.kind = "ok" /\ call.ret.val = signer /\ call.ret.val.ref = "signer"))

C21_Witness ==
    /\ call.op = "GetSigner"
    /\ Returned
    /\ signer.kind = "mock"
    /\ signer.SignDataItemError # NoErr
    /\ call.ret.val = signer

\* the balance request for the address the client's signer reports
SignerBalanceRequest(im, s) == BalanceRequest(im, GetNativeAddress(s).address)

SucceededWithBoth(c) ==
    /\ c.op = "UploadSignedDataItem"
    /\ c.pc = "done"
    /\ c.ret.kind = "ok"
    /\ HasSlot(Bag(c), "OnProgress")
    /\ HasSlot(Bag(c), "OnUploadSuccess")

\* C23 as stated: on a successful UploadSignedDataItem the 100%-progress event
\* for stage "uploading" is emitted first and OnUploadSuccess second.
C23_ProgressBeforeSuccess ==
    SucceededWithBoth(call)
    => /\ Len(call.fired) >= 2
       /\ call.fired[Len(call.fired)].name = "OnUploadSuccess"
       /\ call.fired[Len(call.fired) - 1].name = "OnProgress"

\* C23, amended: on a successful UploadSignedDataItem, after the POST,
\* OnUploadSuccess is emitted first, with the decoded result, and the
\* 100%-progress event for stage "uploading" second, as the last event of the
\* call.
C23_SuccessBeforeProgress ==
    SucceededWithBoth(call)
    => LET n == Len(call.fired)
       IN  /\ n >= 2
           /\ call.fired[n - 1] = UploadSuccessEvent(call.ret.val)
           /\ call.fired[n] = ProgressEvent("uploading", call.sreq.DataItemSizeFactory.size,
                                            call.sreq.DataItemSizeFactory.size)
           /\ Count(call.fired, "OnUploadSuccess") = 1
           /\ Len(call.requests) = 1

C23_Witness ==
    /\ SucceededWithBoth(call)
    /\ Bag(call) = AllSlots
    /\ Names(call.fired) = <<"OnUploadStart", "OnProgress", "OnUploadSuccess", "OnProgress">>

\* the request is nil or lacks one of its two factories
LacksFactory(sreq) ==
    sreq.nil \/ sreq.DataItemStreamFactory.kind = "nil" \/ sreq.DataItemSizeFactory.nil

\* C24: UploadSignedDataItem called with a nil request, or with a request
\* whose DataItemStreamFactory or DataItemSizeFactory is nil, returns an error:
\* it does not panic, fires no callback and issues no request.
C24_NilRequestRejected ==
    (call.op = "UploadSignedDataItem" /\ Returned /\ LacksFactory(call.sreq))
    => /\ call.ret.kind = "err"
       /\ call.fired = <<>>
       /\ call.requests = <<>>

\* the context that governs an Upload: the request's Context field when it is
\* set, otherwise the ctx argument
Governing(c) == IF c.req.Context.nil THEN c.ctx ELSE c.req.Context

\* the call `c` without the cancellations of its ctx argument
WithoutCtxCancelled(c) == [c EXCEPT !.cancelled = {x \in @ : x.id # c.ctx.id}]

\* C25: within one Upload the signer's SignDataItem call and the POST run under
\* the same context, the request's Context field when it is set and the ctx
\* argument otherwise; when the Context field is set the ctx argument is not
\* consulted: cancelling it changes nothing of what the call does or returns.
C25_OneContextGoverns ==
    (call.op = "Upload" /\ ~call.req.nil)
    => /\ \A k \in 1..Len(call.signCtx) : call.signCtx[k] = Governing(call)
       /\ \A k \in 1..Len(call.postCtx) : call.postCtx[k] = Governing(call)
       /\ Len(call.signCtx) = Len(call.dataItems)
       /\ Len(call.postCtx) = Len(call.requests)
       /\ (Returned /\ ~call.req.Context.nil)
          => LET ref == Replay(WithoutCtxCancelled(call), Bag(call))
             IN  /\ Observable(ref) = Observable(call)
                 /\ ref.fired = call.fired

C25_Witness ==
    /\ call.op = "Upload"
    /\ Returned
    /\ call.ret.kind = "ok"
    /\ ~call.req.Context.nil
    /\ call.signCtx = <<call.req.Context>>
    /\ call.postCtx = <<call.req.Context>>
    /\ \E x \in call.cancelled : x.id = call.ctx.id /\ x.at = "inflight"

\* C26: the {token} path segment of the balance request GetBalanceForSigner
\* issues is the token type the client's signer reports, whatever that token
\* type is.
C26_BalanceTokenIsSignersToken ==
    call.op = "GetBalanceForSigner"
    => \A k \in 1..Len(call.requests) : call.requests[k].url.token = GetTokenType(signer)

\* a factory call leaves the configurations of the caller, and the token type
\* of every client built before, as they were
ConfigsUntouched ==
    heap'.clients # heap.clients
    => /\ \A i \in 1..Len(heap.held) : heap'.objects[heap.held[i]] = heap.objects[heap.held[i]]
       /\ \A k \in 1..Len(heap.clients) : TokenOf(heap', k) = TokenOf(heap, k)

\* C27: building an authenticated client through the factory leaves the
\* Config the caller passed unchanged; building a second client from the same
\* Config with a signer of another token type does not change the token type
\* the first client is configured with.
C27_FactoryLeavesConfigUnchanged == [][ConfigsUntouched]_vars

\* the operations that obtain HTTP responses, called directly or through the
\* authenticated client
ObtainsResponses(c) ==
    c.op \in {"GetBalance", "GetBalanceForSigner", "GetUploadCosts", "UploadSignedDataItem",
              "Upload"}

\* C28: when GetBalance, GetUploadCosts or UploadSignedDataItem returns, the
\* body of every HTTP response the call obtained has been closed, on the
\* success path and on every error and early-return path, the 404 path of
\* GetBalance included.
C28_ResponseBodiesClosed ==
    (ObtainsResponses(call) /\ Returned)
    => \A k \in 1..Len(call.bodies) : call.bodies[k] = "closed"

\* the progress events of stage `stage` the call has emitted, in order
ProgressOf(c, stage) ==
    SelectSeq(c.fired, LAMBDA e : e.name = "OnProgress" /\ e.Step = stage)

\* the stage has run to its end
StageCompleted(c, stage) ==
    IF stage = "signing" THEN c.op = "Upload" /\ SignerSucceeded(c)
    ELSE c.pc = "done" /\ c.ret.kind = "ok"

\* the bytes Upload was given
InputOf(req) == IF ~req.Data.nil THEN req.Data.bytes ELSE req.DataReader.content

\* the total a progress event of the stage has to report
TotalOf(c, stage) ==
    IF stage = "signing" THEN Len(InputOf(c.req))
    ELSE IF c.op = "Upload" THEN Len(c.signed.val.ItemBinary)
    ELSE c.sreq.DataItemSizeFactory.size

Outcome(c) == [pc |-> c.pc, ret |-> c.ret, fired |-> c.fired]

\* the responses GetUploadCosts of call `c` received, in order
CostAnswers(c) ==
    [i \in 1..Len(c.answers) |-> Received(c.answers[i])]
       \o (IF c.ret.kind = "err" THEN <<c.got>> ELSE <<>>)

RECURSIVE CostsRun(_, _, _)
\* GetUploadCosts of implementation `im` carried through the answers `answers`
CostsRun(c, im, answers) ==
    IF c.pc # "costs" \/ answers = <<>> THEN c
    ELSE CostsRun(CostsStep(c, im, Head(answers)), im, Tail(answers))

\* the call `c` made on implementation `im`, the transport answering as it did
OnImplementation(c, im) ==
    IF c.op = "GetBalance" THEN WrappedGetBalance(im, IdleCall, c.address, c.got)
    ELSE IF c.op = "GetUploadCosts"
    THEN CostsRun(CostsEnter(IdleCall, c.bytes), im, CostAnswers(c))
    ELSE LET c0 == [IdleCall EXCEPT !.cancelled = c.cancelled, !.env = c.env]
             s1 == OpenStream(UploadSignedEnter(c0, c.sreq))
             s2 == IF s1.pc = "post" THEN Post(s1, im, c.env.built) ELSE s1
             s3 == IF s2.pc = "inflight" THEN ClientDo(s2, c.env.answer) ELSE s2
         IN  IF s3.pc = "parse" THEN HandleUploadResponse(s3) ELSE s3

\* every request the call handed to the transport was answered with a response
TransportResponded(c) ==
    /\ c.pc = "done"
    /\ \/ c.op = "GetBalance" /\ c.got.kind = "response"
       \/ c.op = "UploadSignedDataItem" /\ c.wire = "answered"
       \/ /\ c.op = "GetUploadCosts"
          /\ Len(c.bodies) = Len(c.requests)
          /\ c.ret.kind = "err" => Len(c.bodies) = Len(c.answers) + 1

\* C30: testableUnauthenticatedClient and unauthenticatedClient with token
\* "arweave" are equivalent: whatever responses the transport gives, GetBalance,
\* GetUploadCosts and UploadSignedDataItem return the same result or error and
\* fire the same callbacks in the same order on both.
C30_ImplementationsEquivalent ==
    TransportResponded(call)
    => /\ Outcome(OnImplementation(call, impl)) = Outcome(call)
       /\ Outcome(OnImplementation(call, "prod")) = Outcome(OnImplementation(call, "testable"))

====
